---- MODULE Spec2Model ----
(***************************************************************************)
(* Lifecycle-and-health control plane of the challenge platform:           *)
(*   engine/session_manager.py  (Session Registry)                         *)
(*   engine/health_monitor.py   (Health Monitor)                           *)
(*   engine/orchestrator.py     (Orchestrator)                             *)
(*   api/challenges.py          (provisioning / stop requests)             *)
(* Every `with self._lock:` block is one atomic step; code that runs       *)
(* outside a lock (runtime calls, time reads) is a step of its own.        *)
(* Time is counted in seconds and advances in steps of TickLen.            *)
(***************************************************************************)
EXTENDS Integers, Sequences, FiniteSets, Bags, TLC

(***************************************************************************)
(* Bounds of the model and program constants                               *)
(***************************************************************************)
\* number of clock steps the model follows, and the seconds in one step
MaxTicks == 3
TickLen == 100
\* SessionManager(max_sessions_per_user=...): the quota N the registry is built with
max_sessions_per_user == 2

\* session_manager.py:35
CLEANUP_INTERVAL == 300
\* session_manager.py:159  cleanup_delay = session_timeout + 60
CLEANUP_BUFFER == 60
\* health_monitor.py:30
DEFAULT_CHECK_INTERVAL == 30
\* health_monitor.py:31
FAILURE_THRESHOLD == 3

\* time.time() when the components are constructed: later than the 0 that
\* start_monitoring stores as "never checked"
StartTime == TickLen
MaxTime == StartTime + MaxTicks * TickLen

Users == {"alice", "bob"}
Workloads == {"w1", "w2"}
\* values _generate_session_id can return (a uuid4 prefix: nothing keeps it
\* from repeating an id that is in use)
SessionIds == {"s1", "s2"}
\* session_timeout values: one that a clock step hits exactly, one that it passes
\* before the one-shot timer is due
Timeouts == {100, 150}
\* cap on the one-shot timers pending at once
MaxTimers == Cardinality(SessionIds)
\* container_info dictionaries a caller can pass (has_id = FALSE: no 'container_id' key)
GoodInfo == [has_id |-> TRUE,  container_id |-> "c1", container_port |-> "localhost:32768"]
BadInfo  == [has_id |-> FALSE, container_id |-> "",   container_port |-> ""]
\* the (user_id, challenge_id, container_info) arguments create_session is called with:
\* every valid combination, and one call for each validation failure
CreateInputs ==
  {<<u, c, GoodInfo>> : u \in Users, c \in Workloads}
    \cup {<<"", "w1", GoodInfo>>, <<"alice", "", GoodInfo>>, <<"alice", "w1", BadInfo>>}

\* ids the container runtime gives to the containers it creates
ContainerIds == {"c1", "c2", "c3"}
\* values the orchestrator's _generate_session_id can return
Nonces == {"n1", "n2"}
\* the HTTP requests the model follows at once
Requests == {"r1", "r2"}
\* challenge ids a request can name: a loaded definition and an unknown one
ApiChallenges == {"w1", "w9"}
\* the containers the Health Monitor is asked about
HMContainers == {"c1", "c2"}
\* the containers whose process or health check fails in the model; the others
\* keep the state they were started in
FailingContainers == {"c1"}
\* the monitoring loop threads the model can hold at once
ThreadIds == {"t1", "t2"}
\* the calls of start_monitoring: c1 with the default interval, c2 with an interval
\* longer than the time the model follows, so that c2 is watched and never due
WatchInputs == {<<"c1", DEFAULT_CHECK_INTERVAL>>, <<"c2", 3600>>}
\* the containers that are started, with the ownership label they carry
RunInputs == {<<"c1", TRUE>>, <<"c2", TRUE>>}
\* the threads start_monitoring can take for a new monitoring loop
LoopThreads == {"t1"}
\* State of a container as the runtime reports it: Running, ExitCode, Health.Status
\* ("none": the image has no health check)
Started == [running |-> TRUE, exit_code |-> 0, health |-> "none"]

ContainerStates ==
  {Started,
   [running |-> TRUE,  exit_code |-> 0, health |-> "unhealthy"],
   [running |-> TRUE,  exit_code |-> 0, health |-> "starting"],
   [running |-> FALSE, exit_code |-> 1, health |-> "none"]}

VARIABLES
  now,            \* time.time()
  sessions,       \* SessionManager._sessions: dict in insertion order, as a sequence of SessionInfo
  user_sessions,  \* SessionManager._user_sessions: user_id -> list of session ids
  timers,         \* pending one-shot threading.Timer(_auto_cleanup_session): bag of [session_id, fire_at]
  cleanup_timer,  \* SessionManager._cleanup_timer: time the next periodic sweep is due
  sweep_pc,       \* position of the periodic sweep: "idle" or "locked_out" (time read, lock not yet taken)
  sweep_time,     \* current_time read by cleanup_expired_sessions before it takes the lock
  ret,            \* the last Session Registry call: operation, arguments, result
  docker,         \* the container runtime: container id -> labels and state
  active_containers, \* ChallengeOrchestrator.active_containers: container id -> status
  req,            \* the HTTP requests in progress: request -> position and locals
  hm,             \* the HealthMonitor object: its fields and its loop threads
  tasks,          \* the restart and cleanup threads the monitor has started
  hm_obs          \* what the health checks have read and escalated so far

smVars == <<now, sessions, user_sessions, timers, cleanup_timer, sweep_pc, sweep_time, ret>>
rtVars == <<docker, active_containers>>
apiVars == <<req>>
hmVars == <<hm, tasks, hm_obs>>
vars == <<now, sessions, user_sessions, timers, cleanup_timer, sweep_pc, sweep_time, ret,
          docker, active_containers, req, hm, tasks, hm_obs>>

(***************************************************************************)
(* Python dict / list helpers                                              *)
(***************************************************************************)
Keys(ss) == {ss[i].session_id : i \in 1..Len(ss)}

IndexOf(ss, id) == CHOOSE i \in 1..Len(ss) : ss[i].session_id = id

Lookup(ss, id) == ss[IndexOf(ss, id)]

\* d[k] = v : an existing key keeps its position, a new key goes last
DictSet(ss, id, rec) ==
  IF id \in Keys(ss) THEN [ss EXCEPT ![IndexOf(ss, id)] = rec] ELSE Append(ss, rec)

\* del d[k]
DictDel(ss, id) == SelectSeq(ss, LAMBDA r : r.session_id # id)

InList(list, x) == \E i \in 1..Len(list) : list[i] = x

\* list.remove(x): the first occurrence only
ListRemove(list, x) ==
  IF ~InList(list, x) THEN list
  ELSE LET i == CHOOSE j \in 1..Len(list) : list[j] = x /\ \A k \in 1..(j-1) : list[k] # x
       IN  SubSeq(list, 1, i-1) \o SubSeq(list, i+1, Len(list))

\* dict.get(user_id, [])
UserList(us, uid) == IF uid \in DOMAIN us THEN us[uid] ELSE <<>>

DictPut(us, uid, list) == [u \in DOMAIN us \cup {uid} |-> IF u = uid THEN list ELSE us[u]]

DictDrop(us, uid) == [u \in DOMAIN us \ {uid} |-> us[u]]

NoResult == <<>>

\* the record of a call: its name, arguments, outcome ("ok", "None", "True", "False"
\* or the exception that escaped), the sessions it returned and a count
Ret(op, args, status, sess, n) ==
  [op |-> op, args |-> args, status |-> status, sess |-> sess, n |-> n]

NoCall == Ret("none", <<>>, "ok", <<>>, 0)

(***************************************************************************)
(* Session Registry                                                        *)
(***************************************************************************)
\* Faulty variants of the operators of the model; each property below fails on one.
\* an expiry test that waits for the buffer of the one-shot timer as well
expired_after_buffer(t, info) == t > info.expires_at + CLEANUP_BUFFER

\* a limit check that lets one session too many in
user_limit_exceeded(us, uid) == Len(UserList(us, uid)) > max_sessions_per_user

\* a cleanup_session that leaves the record in the session map
cleanup_session_keeps_record(s, u, sid) ==
  IF sid \notin Keys(s) THEN [s |-> s, u |-> u, ok |-> FALSE]
  ELSE LET info == Lookup(s, sid)
           list == UserList(u, info.user_id)
           left == ListRemove(list, sid)
           u2   == IF ~InList(list, sid) THEN u
                   ELSE IF left = <<>> THEN DictDrop(u, info.user_id)
                   ELSE DictPut(u, info.user_id, left)
       IN  [s |-> DictSet(s, sid, [info EXCEPT !.status = "stopped"]), u |-> u2, ok |-> TRUE]

\* a cleanup_session that leaves the id in the per-user index
cleanup_session_keeps_index(s, u, sid) ==
  IF sid \notin Keys(s) THEN [s |-> s, u |-> u, ok |-> FALSE]
  ELSE [s |-> DictDel(s, sid), u |-> u, ok |-> TRUE]

\* a sweep that skips the first session it finds expired
expired_session_ids_skip_first(s, t) ==
  LET e == SelectSeq(s, LAMBDA info : t > info.expires_at)
  IN  [i \in 1..(IF Len(e) = 0 THEN 0 ELSE Len(e) - 1) |-> e[i + 1].session_id]

\* _extract_health_status that reports none for a running container without a
\* health check
extract_health_status_none(state) ==
  IF ~state.running THEN "unhealthy"
  ELSE IF state.health \in {"healthy", "unhealthy", "starting"} THEN state.health
  ELSE "none"

\* an ownership test that accepts every container
has_any_label(container) == TRUE

\* a loop that ends when it has checked a container
next_container_abort(th) == [pc |-> "dead", containers_to_check |-> <<>>, health_status |-> "unknown"]

\* a stop_challenge without the label test
stop_challenge_lookup_any(d, cid) == IF cid \notin DOMAIN d THEN "NotFound" ELSE "ok"

\* a stop_challenge that treats NotFound like any other error of the runtime
stop_challenge_act_strict(d, ac, cid, force) ==
  IF cid \notin DOMAIN d \/ (force /\ ~d[cid].running)
  THEN {[d |-> d, ac |-> ac, result |-> "ChallengeError"]}
  ELSE {[d |-> [x \in DOMAIN d \ {cid} |-> d[x]],
         ac |-> ac, result |-> "True"]}

\* a comparison that leaves out the last two characters
compare_digest_short(a, b) ==
  SubSeq(a, 1, Len(a) - 2) = SubSeq(b, 1, Len(b) - 2)

\* a reset that leaves the failure count as it is
reset_failure_count_skip(h, cid) == h

\* a sweep that takes every session for expired
expired_session_ids_all(s, t) == [i \in 1..Len(s) |-> s[i].session_id]

\* a _schedule_cleanup that starts the next timer at the end of its try block: when
\* the sweep raises, no timer is started and no sweep is due any more
next_cleanup_in_try(t, raised) ==
  IF raised THEN t + CLEANUP_INTERVAL * CLEANUP_INTERVAL ELSE t + CLEANUP_INTERVAL

\* time.time() > session_info.expires_at
expired(t, info) == t > info.expires_at

SessionInfo(sid, uid, cid, cinfo, t, timeout) ==
  [session_id |-> sid, user_id |-> uid, challenge_id |-> cid,
   container_id |-> cinfo.container_id, container_port |-> cinfo.container_port,
   created_at |-> t, expires_at |-> t + timeout, status |-> "active"]

\* the exception create_session lets escape when `inner` is raised in its try block:
\* `except Exception as e: raise SessionManagerError(...)`
create_session_raises(inner) == "SessionManagerError"

\* the check of the per-user limit
user_limit_reached(us, uid) == Len(UserList(us, uid)) >= max_sessions_per_user

\* cleanup_session on the registry (s, u): the registry after it and its return value
cleanup_session(s, u, sid) ==
  IF sid \notin Keys(s) THEN [s |-> s, u |-> u, ok |-> FALSE]
  ELSE LET info == Lookup(s, sid)
           list == UserList(u, info.user_id)
           left == ListRemove(list, sid)
           u2   == IF ~InList(list, sid) THEN u
                   ELSE IF left = <<>> THEN DictDrop(u, info.user_id)
                   ELSE DictPut(u, info.user_id, left)
       IN  [s |-> DictDel(s, sid), u |-> u2, ok |-> TRUE]

RECURSIVE cleanup_all(_, _, _, _)
\* the loop `for session_id in expired_session_ids: if self.cleanup_session(...)`
cleanup_all(s, u, ids, count) ==
  IF ids = <<>> THEN [s |-> s, u |-> u, n |-> count]
  ELSE LET r == cleanup_session(s, u, Head(ids))
       IN  cleanup_all(r.s, r.u, Tail(ids), IF r.ok THEN count + 1 ELSE count)

\* ids of the sessions the sweep finds expired, in dict order
expired_session_ids(s, t) ==
  LET e == SelectSeq(s, LAMBDA info : expired(t, info))
  IN  [i \in 1..Len(e) |-> e[i].session_id]

\* a monitoring loop thread that does not exist (never started, or ended)
DeadThread == [pc |-> "dead", containers_to_check |-> <<>>, health_status |-> "unknown"]

\* HealthMonitor.__init__
HealthMonitor ==
  [monitored_containers |-> <<>>, health_status |-> <<>>, failure_counts |-> <<>>,
   last_check_time |-> <<>>, recovery_attempts |-> <<>>,
   running |-> FALSE, stop_event |-> FALSE, monitor_thread |-> "none",
   threads |-> [t \in ThreadIds |-> DeadThread]]

\* a request handler that is not serving a request
IdleRequest ==
  [pc |-> "idle", user_id |-> "", challenge_id |-> "", session_timeout |-> 0,
   nonce |-> "", instance_data |-> [timestamp |-> 0, nonce |-> ""],
   container_id |-> "", session_id |-> "", code |-> 0,
   force |-> FALSE, stopped |-> ""]

TypeOK ==
  /\ now \in 0..MaxTime
  /\ sweep_pc \in {"idle", "locked_out"}

Init ==
  /\ now = StartTime
  /\ sessions = <<>>
  /\ user_sessions = << >>
  /\ timers = EmptyBag
  /\ cleanup_timer = StartTime + CLEANUP_INTERVAL
  /\ sweep_pc = "idle"
  /\ sweep_time = StartTime
  /\ ret = NoCall
  /\ docker = << >>
  /\ active_containers = << >>
  /\ req = [r \in Requests |-> IdleRequest]
  /\ hm = HealthMonitor
  /\ tasks = {}
  /\ hm_obs = [streak |-> [c \in HMContainers |-> -1], escalated |-> {}]

\* the clock
Tick ==
  /\ now + TickLen <= MaxTime
  /\ now' = now + TickLen
  /\ ret' = NoCall
  /\ UNCHANGED <<sessions, user_sessions, timers, cleanup_timer, sweep_pc, sweep_time>>

\* str(uuid.uuid4())[:8]: the values a call can return when the session map is s
generate_session_id(s) == SessionIds

\* bounds of the model on a create that succeeds: its one-shot timer is due within
\* the time the model follows, and at most MaxTimers timers are pending
WithinBounds(session_timeout) ==
  /\ now + session_timeout <= MaxTime
  /\ BagCardinality(timers) < MaxTimers

\* a create_session that checks the limit after it has recorded the session in the
\* index of the user
create_session_checks_late(user_id, challenge_id, container_info, session_timeout) ==
  /\ IF user_id = "" \/ challenge_id = "" \/ ~container_info.has_id
     THEN /\ ret' = Ret("create_session", <<user_id, challenge_id>>,
                        create_session_raises("SessionManagerError"), NoResult, 0)
          /\ UNCHANGED <<sessions, user_sessions, timers>>
     ELSE \E session_id \in generate_session_id(sessions) :
          LET info == SessionInfo(session_id, user_id, challenge_id, container_info,
                                  now, session_timeout)
              index == DictPut(user_sessions, user_id,
                               Append(UserList(user_sessions, user_id), session_id))
          IN  IF Len(index[user_id]) > max_sessions_per_user
              THEN /\ user_sessions' = index
                   /\ ret' = Ret("create_session", <<user_id, challenge_id>>,
                                 create_session_raises("UserSessionLimitError"), NoResult, 0)
                   /\ UNCHANGED <<sessions, timers>>
              ELSE /\ WithinBounds(session_timeout)
                   /\ sessions' = DictSet(sessions, session_id, info)
                   /\ user_sessions' = index
                   /\ timers' = timers (+) SetToBag({[session_id |-> session_id,
                                     fire_at |-> now + session_timeout + CLEANUP_BUFFER]})
                   /\ ret' = Ret("create_session", <<user_id, challenge_id>>, "ok", <<info>>, 0)
  /\ UNCHANGED <<now, cleanup_timer, sweep_pc, sweep_time>>

create_session(user_id, challenge_id, container_info, session_timeout) ==
  /\ IF user_id = "" \/ challenge_id = "" \/ ~container_info.has_id
     THEN /\ ret' = Ret("create_session", <<user_id, challenge_id>>,
                        create_session_raises("SessionManagerError"), NoResult, 0)
          /\ UNCHANGED <<sessions, user_sessions, timers>>
     ELSE IF user_limit_reached(user_sessions, user_id)
     THEN /\ ret' = Ret("create_session", <<user_id, challenge_id>>,
                        create_session_raises("UserSessionLimitError"), NoResult, 0)
          /\ UNCHANGED <<sessions, user_sessions, timers>>
     ELSE \E session_id \in generate_session_id(sessions) :
          LET info == SessionInfo(session_id, user_id, challenge_id, container_info,
                                  now, session_timeout)
          IN  /\ WithinBounds(session_timeout)
              /\ sessions' = DictSet(sessions, session_id, info)
              /\ user_sessions' = DictPut(user_sessions, user_id,
                                          Append(UserList(user_sessions, user_id), session_id))
              /\ timers' = timers (+) SetToBag({[session_id |-> session_id,
                                     fire_at |-> now + session_timeout + CLEANUP_BUFFER]})
              /\ ret' = Ret("create_session", <<user_id, challenge_id>>, "ok", <<info>>, 0)
  /\ UNCHANGED <<now, cleanup_timer, sweep_pc, sweep_time>>

\* the first session in dict order that get_session's scan stops at, or 0
first_active(s, user_id, challenge_id) ==
  LET m == {i \in 1..Len(s) : /\ s[i].user_id = user_id
                              /\ s[i].challenge_id = challenge_id
                              /\ s[i].status = "active"}
  IN  IF m = {} THEN 0 ELSE CHOOSE i \in m : \A j \in m : i <= j

get_session(user_id, challenge_id) ==
  LET i == first_active(sessions, user_id, challenge_id)
  IN  /\ IF i = 0
         THEN /\ ret' = Ret("get_session", <<user_id, challenge_id>>, "None", NoResult, 0)
              /\ UNCHANGED sessions
         ELSE IF expired(now, sessions[i])
         THEN /\ sessions' = [sessions EXCEPT ![i].status = "expired"]
              /\ ret' = Ret("get_session", <<user_id, challenge_id>>, "None", NoResult, 0)
         ELSE /\ ret' = Ret("get_session", <<user_id, challenge_id>>, "ok", <<sessions[i]>>, 0)
              /\ UNCHANGED sessions
      /\ UNCHANGED <<now, user_sessions, timers, cleanup_timer, sweep_pc, sweep_time>>

get_session_by_id(session_id) ==
  /\ IF session_id \notin Keys(sessions)
     THEN /\ ret' = Ret("get_session_by_id", <<session_id>>, "None", NoResult, 0)
          /\ UNCHANGED sessions
     ELSE LET info == Lookup(sessions, session_id)
          IN  IF expired(now, info)
              THEN /\ sessions' = DictSet(sessions, session_id, [info EXCEPT !.status = "expired"])
                   /\ ret' = Ret("get_session_by_id", <<session_id>>, "None", NoResult, 0)
              ELSE /\ ret' = Ret("get_session_by_id", <<session_id>>, "ok", <<info>>, 0)
                   /\ UNCHANGED sessions
  /\ UNCHANGED <<now, user_sessions, timers, cleanup_timer, sweep_pc, sweep_time>>

\* the public cleanup_session(session_id) call
cleanup_session_call(session_id) ==
  LET r == cleanup_session(sessions, user_sessions, session_id)
  IN  /\ sessions' = r.s
      /\ user_sessions' = r.u
      /\ ret' = Ret("cleanup_session", <<session_id>>, IF r.ok THEN "True" ELSE "False", NoResult, 0)
      /\ UNCHANGED <<now, timers, cleanup_timer, sweep_pc, sweep_time>>

RECURSIVE list_scan(_, _, _, _, _)
\* the loop of list_user_sessions over user_session_ids.copy()
list_scan(s, ids, copy, t, active) ==
  IF copy = <<>> THEN [s |-> s, ids |-> ids, active |-> active]
  ELSE LET sid == Head(copy)
       IN  IF sid \notin Keys(s)
           THEN list_scan(s, ListRemove(ids, sid), Tail(copy), t, active)
           ELSE LET info == Lookup(s, sid)
                IN  IF expired(t, info)
                    THEN list_scan(DictSet(s, sid, [info EXCEPT !.status = "expired"]),
                                   ids, Tail(copy), t, active)
                    ELSE IF info.status = "active"
                    THEN list_scan(s, ids, Tail(copy), t, Append(active, info))
                    ELSE list_scan(s, ids, Tail(copy), t, active)

list_user_sessions(user_id) ==
  LET ids == UserList(user_sessions, user_id)
      r   == list_scan(sessions, ids, ids, now, <<>>)
  IN  /\ sessions' = r.s
      /\ user_sessions' = IF user_id \in DOMAIN user_sessions
                          THEN DictPut(user_sessions, user_id, r.ids)
                          ELSE user_sessions
      /\ ret' = Ret("list_user_sessions", <<user_id>>, "ok", r.active, 0)
      /\ UNCHANGED <<now, timers, cleanup_timer, sweep_pc, sweep_time>>

\* the `finally` of _schedule_cleanup: threading.Timer(CLEANUP_INTERVAL, ...) is
\* started at time t, whether the sweep raised or not; the time the timer is due
next_cleanup(t, raised) == t + CLEANUP_INTERVAL

\* cleanup_expired_sessions, first part: current_time = time.time() is read before
\* the lock is taken (the periodic timer has fired)
sweep_read_time ==
  /\ sweep_pc = "idle"
  /\ now >= cleanup_timer
  /\ sweep_time' = now
  /\ sweep_pc' = "locked_out"
  /\ UNCHANGED <<now, sessions, user_sessions, timers, cleanup_timer, ret>>

\* cleanup_expired_sessions, the locked part, and the `finally` of _schedule_cleanup
\* that starts the next periodic timer
cleanup_expired_sessions ==
  /\ sweep_pc = "locked_out"
  /\ LET r == cleanup_all(sessions, user_sessions,
                          expired_session_ids(sessions, sweep_time), 0)
     IN  /\ sessions' = r.s
         /\ user_sessions' = r.u
         /\ ret' = Ret("cleanup_expired_sessions", <<sweep_time>>, "ok", NoResult, r.n)
  /\ cleanup_timer' = next_cleanup(now, FALSE)
  /\ sweep_pc' = "idle"
  /\ UNCHANGED <<now, timers, sweep_time>>

\* get_session_stats() on the registry (s, u) at time t
get_session_stats(s, u, t) ==
  LET expired_ones == {i \in 1..Len(s) : t > s[i].expires_at}
      active_ones  == {i \in 1..Len(s) \ expired_ones : s[i].status = "active"}
  IN  [total_sessions   |-> Len(s),
       active_sessions  |-> Cardinality(active_ones),
       expired_sessions |-> Cardinality(expired_ones),
       stopped_sessions |-> Len(s) - Cardinality(expired_ones) - Cardinality(active_ones),
       unique_users     |-> Cardinality(DOMAIN u)]

\* a one-shot timer fires: _auto_cleanup_session(session_id)
auto_cleanup_session(t) ==
  /\ BagIn(t, timers)
  /\ now >= t.fire_at
  /\ LET r == cleanup_session(sessions, user_sessions, t.session_id)
     IN  /\ sessions' = r.s
         /\ user_sessions' = r.u
         /\ ret' = Ret("auto_cleanup_session", <<t.session_id>>,
                       IF r.ok THEN "True" ELSE "False", NoResult, 0)
  /\ timers' = timers (-) SetToBag({t})
  /\ UNCHANGED <<now, cleanup_timer, sweep_pc, sweep_time>>

Next ==
  \/ Tick /\ UNCHANGED <<rtVars, apiVars, hmVars>>
  \/ \E a \in CreateInputs, t \in Timeouts :
        create_session(a[1], a[2], a[3], t) /\ UNCHANGED <<rtVars, apiVars, hmVars>>
  \/ \E u \in Users, c \in Workloads : get_session(u, c) /\ UNCHANGED <<rtVars, apiVars, hmVars>>
  \/ \E sid \in SessionIds : get_session_by_id(sid) /\ UNCHANGED <<rtVars, apiVars, hmVars>>
  \/ \E sid \in SessionIds : cleanup_session_call(sid) /\ UNCHANGED <<rtVars, apiVars, hmVars>>
  \/ \E u \in Users : list_user_sessions(u) /\ UNCHANGED <<rtVars, apiVars, hmVars>>
  \/ sweep_read_time /\ UNCHANGED <<rtVars, apiVars, hmVars>>
  \/ cleanup_expired_sessions /\ UNCHANGED <<rtVars, apiVars, hmVars>>
  \/ \E t \in BagToSet(timers) : auto_cleanup_session(t) /\ UNCHANGED <<rtVars, apiVars, hmVars>>

Spec == Init /\ [][Next]_vars

(***************************************************************************)
(* Orchestrator (engine/orchestrator.py) and the provisioning request      *)
(* (api/challenges.py, POST /api/challenges)                               *)
(***************************************************************************)
\* ChallengeOrchestrator.challenges: the loaded definitions
Challenges == Workloads

\* the exception spawn_challenge lets escape when `inner` is raised in its try
\* block: ImageNotFound and APIError have handlers of their own, every other
\* exception is caught by `except Exception` and raised again as ChallengeError
spawn_challenge_raises(inner) == "ChallengeError"

\* the parameters create_session declares, and the keyword arguments the request
\* handler passes to it
create_session_params == {"user_id", "challenge_id", "container_info", "session_timeout"}

api_create_kwargs ==
  {"user_id", "challenge_id", "container_info", "session_timeout", "instance_data"}

\* the status code the handler's except clauses give to an exception, in the order
\* they are written
http_status(exc) ==
  CASE exc = "BadRequest" -> 400
    [] exc = "ChallengeNotFoundError" -> 404
    [] exc = "UserSessionLimitError" -> 429
    [] exc \in {"ChallengeError", "SessionManagerError"} -> 500
    [] OTHER -> 500

Put(f, k, v) == [x \in DOMAIN f \cup {k} |-> IF x = k THEN v ELSE f[x]]

Drop(f, k) == [x \in DOMAIN f \ {k} |-> f[x]]

\* containers.list(filters={'label': ...}, all=False): the running containers that
\* carry the labels of (user_id, challenge_id)
running_for(d, user_id, challenge_id) ==
  {c \in DOMAIN d : /\ d[c].owned /\ d[c].running
                    /\ d[c].user_id = user_id /\ d[c].challenge_id = challenge_id}

\* a request handler enters: the body is valid JSON with the required fields
api_spawn_begin(r, user_id, challenge_id, session_timeout) ==
  /\ req[r].pc = "idle"
  /\ req' = [req EXCEPT ![r] = [IdleRequest EXCEPT !.pc = "get", !.user_id = user_id,
                                  !.challenge_id = challenge_id,
                                  !.session_timeout = session_timeout]]
  /\ UNCHANGED <<smVars, rtVars, hmVars>>

\* existing_session = session_manager.get_session(user_id, challenge_id)
api_spawn_get(r) ==
  /\ req[r].pc = "get"
  /\ get_session(req[r].user_id, req[r].challenge_id)
  /\ req' = [req EXCEPT ![r] =
               IF ret'.status = "ok"
               THEN [@ EXCEPT !.pc = "done", !.code = 200,
                              !.session_id = ret'.sess[1].session_id,
                              !.container_id = ret'.sess[1].container_id]
               ELSE [@ EXCEPT !.pc = "spawn"]]
  /\ UNCHANGED <<rtVars, hmVars>>

\* orchestrator.spawn_challenge up to the minting of the flag: the definition is
\* looked up, the session token drawn and instance_data built from int(time.time())
spawn_challenge_mint(r) ==
  /\ req[r].pc = "spawn"
  /\ IF req[r].challenge_id \notin Challenges
     THEN req' = [req EXCEPT ![r].pc = "done",
                    ![r].code = http_status(spawn_challenge_raises("ChallengeNotFoundError"))]
     ELSE \E n \in Nonces :
            req' = [req EXCEPT ![r].pc = "run", ![r].nonce = n,
                               ![r].instance_data = [timestamp |-> now, nonce |-> n]]
  /\ UNCHANGED <<smVars, rtVars, hmVars>>

\* orchestrator.spawn_challenge from the labels on: the labels take a new
\* int(time.time()), containers.run starts the container (or fails with APIError)
\* and the container is entered in active_containers
spawn_challenge_run(r) ==
  /\ req[r].pc = "run"
  /\ \/ \E c \in ContainerIds \ DOMAIN docker :
          /\ docker' = Put(docker, c,
                 [owned |-> TRUE, challenge_id |-> req[r].challenge_id,
                  user_id |-> req[r].user_id, session |-> req[r].nonce,
                  started |-> now, timeout |-> req[r].session_timeout,
                  running |-> TRUE, exit_code |-> 0, health |-> "none",
                  flag_nonce |-> req[r].instance_data])
          /\ active_containers' = Put(active_containers, c, "running")
          /\ req' = [req EXCEPT ![r].pc = "create", ![r].container_id = c]
     \/ /\ req' = [req EXCEPT ![r].pc = "done", ![r].code = http_status("ChallengeError")]
        /\ UNCHANGED rtVars
  /\ UNCHANGED <<smVars, hmVars>>

\* the handler after spawn: the ports are read from list_running and
\* session_manager.create_session(..., instance_data=instance_data) is called
api_spawn_create(r) ==
  /\ req[r].pc = "create"
  /\ IF api_create_kwargs \subseteq create_session_params
     THEN /\ create_session(req[r].user_id, req[r].challenge_id,
                            [has_id |-> TRUE, container_id |-> req[r].container_id,
                             container_port |-> "localhost:32768"],
                            req[r].session_timeout)
          /\ req' = [req EXCEPT ![r].pc = "done",
                       ![r].code = IF ret'.status = "ok" THEN 201 ELSE http_status(ret'.status),
                       ![r].session_id = IF ret'.status = "ok"
                                         THEN ret'.sess[1].session_id ELSE ""]
     ELSE \* TypeError: create_session() got an unexpected keyword argument
          /\ req' = [req EXCEPT ![r].pc = "done", ![r].code = http_status("TypeError")]
          /\ UNCHANGED smVars
  /\ UNCHANGED <<rtVars, hmVars>>

\* the response is sent; the worker takes the next request
api_respond(r) ==
  /\ req[r].pc = "done"
  /\ req' = [req EXCEPT ![r] = IdleRequest]
  /\ UNCHANGED <<smVars, rtVars, hmVars>>

NextApi ==
  \/ \E r \in Requests, u \in Users, c \in ApiChallenges, t \in {100} :
        api_spawn_begin(r, u, c, t)
  \/ \E r \in Requests : api_spawn_get(r)
  \/ \E r \in Requests : spawn_challenge_mint(r)
  \/ \E r \in Requests : spawn_challenge_run(r)
  \/ \E r \in Requests : api_spawn_create(r)
  \/ \E r \in Requests : api_respond(r)

SpecApi == Init /\ [][NextApi]_vars

(***************************************************************************)
(* Health Monitor (engine/health_monitor.py)                               *)
(***************************************************************************)
\* dict.get(k, default)
Get(f, k, default) == IF k \in DOMAIN f THEN f[k] ELSE default

\* the keys of _monitored_containers, in the order of the dict
watched_ids(mc) == [i \in 1..Len(mc) |-> mc[i].container_id]

Watched(mc) == {mc[i].container_id : i \in 1..Len(mc)}

\* _monitored_containers[container_id] = config: a key the dict holds keeps its place
monitored_set(mc, config) ==
  IF config.container_id \in Watched(mc)
  THEN [i \in 1..Len(mc) |->
          IF mc[i].container_id = config.container_id THEN config ELSE mc[i]]
  ELSE Append(mc, config)

\* del _monitored_containers[container_id]
monitored_del(mc, cid) == SelectSeq(mc, LAMBDA e : e.container_id # cid)

\* an _extract_health_status that looks at the health check first and at the
\* running flag only when there is none
extract_health_status_explicit_first(state) ==
  IF state.health \in {"healthy", "unhealthy", "starting"} THEN state.health
  ELSE IF ~state.running THEN "unhealthy"
  ELSE IF state.exit_code # 0 THEN "unhealthy"
  ELSE "healthy"

\* _extract_health_status(container_state)
extract_health_status(state) ==
  IF ~state.running THEN "unhealthy"
  ELSE IF state.health \in {"healthy", "unhealthy", "starting"} THEN state.health
  ELSE IF state.exit_code # 0 THEN "unhealthy"
  ELSE IF state.running THEN "healthy"
  ELSE "none"

\* _start_monitor_thread(), the new thread being t
start_monitor_thread(h, t) ==
  IF h.running THEN h
  ELSE [h EXCEPT !.stop_event = FALSE, !.monitor_thread = t, !.running = TRUE,
                 !.threads[t] = [DeadThread EXCEPT !.pc = "wait"]]

\* _stop_monitor_thread() executed by thread `caller`: the event is set and
\* _monitor_thread.join(timeout=5) is called.  join raises RuntimeError when the
\* caller is the monitor thread itself; a thread waiting on the event ends within
\* the join; any other thread is still alive when the join returns
stop_monitor_thread(h, caller) ==
  IF ~h.running THEN [h |-> h, raised |-> FALSE]
  ELSE LET h1 == [h EXCEPT !.stop_event = TRUE, !.running = FALSE]
           mt == h.monitor_thread
           alive == mt # "none" /\ h.threads[mt].pc # "dead"
       IN  IF alive /\ caller = mt THEN [h |-> h1, raised |-> TRUE]
           ELSE IF alive /\ h.threads[mt].pc = "wait"
           THEN [h |-> [h1 EXCEPT !.threads[mt] = DeadThread], raised |-> FALSE]
           ELSE [h |-> h1, raised |-> FALSE]

\* a stop_monitoring that forgets the failure and recovery counters
stop_monitoring_keeps_counts(h, cid, caller) ==
  IF cid \notin Watched(h.monitored_containers) THEN [h |-> h, raised |-> FALSE]
  ELSE LET h1 == [h EXCEPT !.monitored_containers = monitored_del(@, cid),
                           !.health_status = Drop(@, cid),
                           !.last_check_time = Drop(@, cid)]
       IN  IF h1.monitored_containers = <<>> /\ h1.running
           THEN stop_monitor_thread(h1, caller)
           ELSE [h |-> h1, raised |-> FALSE]

\* stop_monitoring(container_id) executed by thread `caller`
stop_monitoring(h, cid, caller) ==
  IF cid \notin Watched(h.monitored_containers) THEN [h |-> h, raised |-> FALSE]
  ELSE LET h1 == [h EXCEPT !.monitored_containers = monitored_del(@, cid),
                           !.health_status = Drop(@, cid),
                           !.failure_counts = Drop(@, cid),
                           !.last_check_time = Drop(@, cid),
                           !.recovery_attempts = Drop(@, cid)]
       IN  IF h1.monitored_containers = <<>> /\ h1.running
           THEN stop_monitor_thread(h1, caller)
           ELSE [h |-> h1, raised |-> FALSE]

\* _mark_for_cleanup(container_id): the cleanup thread is started unless
\* stop_monitoring raised, in which case the except clause only logs
mark_for_cleanup(h, cid, caller) ==
  LET r == stop_monitoring(h, cid, caller)
  IN  [h |-> r.h, restart |-> FALSE, cleanup |-> ~r.raised, marked |-> TRUE]

\* _handle_unhealthy_container(container_id, container)
handle_unhealthy_container(h, cid, caller) ==
  LET failure_count == Get(h.failure_counts, cid, 0) + 1
      h1 == [h EXCEPT !.failure_counts = Put(@, cid, failure_count)]
      recovery_attempts == Get(h.recovery_attempts, cid, 0)
  IN  IF failure_count <= FAILURE_THRESHOLD
      THEN IF recovery_attempts < FAILURE_THRESHOLD
           THEN [h |-> [h1 EXCEPT !.recovery_attempts = Put(@, cid, recovery_attempts + 1)],
                 restart |-> TRUE, cleanup |-> FALSE, marked |-> FALSE]
           ELSE mark_for_cleanup(h1, cid, caller)
      ELSE mark_for_cleanup(h1, cid, caller)

\* the loop goes on to the next container of containers_to_check, or to the wait
\* that ends the pass
next_container(th) ==
  LET rest == Tail(th.containers_to_check)
  IN  [th EXCEPT !.containers_to_check = rest,
                 !.pc = IF rest = <<>> THEN "wait" ELSE "check"]

\* a container the runtime holds, with the labels the orchestrator gives it when
\* owned is true and without them otherwise
Container(owned, state) ==
  [owned |-> owned, challenge_id |-> IF owned THEN "w1" ELSE "",
   user_id |-> IF owned THEN "alice" ELSE "", session |-> IF owned THEN "n1" ELSE "",
   started |-> 0, timeout |-> 0,
   running |-> state.running, exit_code |-> state.exit_code, health |-> state.health,
   flag_nonce |-> [timestamp |-> 0, nonce |-> ""]]

\* a container is started in the runtime
container_run(c, owned) ==
  /\ c \notin DOMAIN docker
  /\ docker' = Put(docker, c, Container(owned, Started))
  /\ UNCHANGED <<smVars, active_containers, apiVars, hmVars>>

\* the process of a container exits, or its health check changes its verdict
container_state_change(c, state) ==
  /\ c \in DOMAIN docker
  /\ docker[c].owned
  /\ state # [running |-> docker[c].running, exit_code |-> docker[c].exit_code,
              health |-> docker[c].health]
  /\ docker' = [docker EXCEPT ![c].running = state.running,
                              ![c].exit_code = state.exit_code,
                              ![c].health = state.health]
  /\ UNCHANGED <<smVars, active_containers, apiVars, hmVars>>

\* a container is removed from the runtime by someone other than the monitor
container_removed(c) ==
  /\ c \in DOMAIN docker
  /\ docker' = Drop(docker, c)
  /\ UNCHANGED <<smVars, active_containers, apiVars, hmVars>>

\* labels.get('dvc.challenge.id') is set: the container carries the ownership label
has_challenge_label(container) == container.owned

\* a start_monitoring that sets the counters of a new container only (setdefault)
\* and keeps those of a container that is already watched
start_monitoring_body_keeps_counts(container_id, check_interval, t) ==
     IF container_id \notin DOMAIN docker
     THEN UNCHANGED hmVars
     ELSE IF ~has_challenge_label(docker[container_id])
     THEN UNCHANGED hmVars
     ELSE LET h1 == [hm EXCEPT
                       !.monitored_containers =
                          monitored_set(@, [container_id |-> container_id,
                                            check_interval |-> check_interval,
                                            challenge_id |-> docker[container_id].challenge_id,
                                            user_id |-> docker[container_id].user_id]),
                       !.health_status = Put(@, container_id, "unknown"),
                       !.failure_counts = Put(@, container_id, Get(@, container_id, 0)),
                       !.last_check_time = Put(@, container_id, 0),
                       !.recovery_attempts = Put(@, container_id, Get(@, container_id, 0))]
          IN  /\ hm.running \/ hm.threads[t].pc = "dead"
              /\ hm' = start_monitor_thread(h1, t)
              /\ hm_obs' = [hm_obs EXCEPT !.streak[container_id] = 0,
                                          !.escalated = @ \ {container_id}]
              /\ UNCHANGED tasks

\* the body of start_monitoring(container_id, check_interval); t is the thread
\* _start_monitor_thread creates if it has to
start_monitoring_body(container_id, check_interval, t) ==
     IF container_id \notin DOMAIN docker
     THEN UNCHANGED hmVars                       \* NotFound: logged
     ELSE IF ~has_challenge_label(docker[container_id])
     THEN UNCHANGED hmVars                       \* not a challenge container
     ELSE LET h1 == [hm EXCEPT
                       !.monitored_containers =
                          monitored_set(@, [container_id |-> container_id,
                                            check_interval |-> check_interval,
                                            challenge_id |-> docker[container_id].challenge_id,
                                            user_id |-> docker[container_id].user_id]),
                       !.health_status = Put(@, container_id, "unknown"),
                       !.failure_counts = Put(@, container_id, 0),
                       !.last_check_time = Put(@, container_id, 0),
                       !.recovery_attempts = Put(@, container_id, 0)]
          IN  /\ hm.running \/ hm.threads[t].pc = "dead"
              /\ hm' = start_monitor_thread(h1, t)
              /\ hm_obs' = [hm_obs EXCEPT !.streak[container_id] = 0,
                                          !.escalated = @ \ {container_id}]
              /\ UNCHANGED tasks

\* start_monitoring(container_id, check_interval), called by a client thread
start_monitoring(container_id, check_interval, t) ==
  /\ start_monitoring_body(container_id, check_interval, t)
  /\ UNCHANGED <<smVars, rtVars, apiVars>>

\* stop_monitoring(container_id), called by a client thread
stop_monitoring_call(container_id) ==
  /\ hm' = stop_monitoring(hm, container_id, "client").h
  /\ UNCHANGED <<smVars, rtVars, apiVars, tasks, hm_obs>>

\* _monitor_loop: the wait that ends a pass returns and the loop condition is read
monitor_wake(t) ==
  /\ hm.threads[t].pc = "wait"
  /\ hm' = [hm EXCEPT !.threads[t] =
              IF hm.stop_event THEN DeadThread ELSE [@ EXCEPT !.pc = "list"]]
  /\ UNCHANGED <<smVars, rtVars, apiVars, tasks, hm_obs>>

\* _monitor_loop: under the lock, the containers that are due are listed
monitor_list(t) ==
  /\ hm.threads[t].pc = "list"
  /\ LET mc == hm.monitored_containers
         due == SelectSeq(mc, LAMBDA e :
                   now - Get(hm.last_check_time, e.container_id, 0) >= e.check_interval)
         ids == watched_ids(due)
     IN  hm' = [hm EXCEPT !.threads[t] =
                  [@ EXCEPT !.containers_to_check = ids,
                            !.pc = IF ids = <<>> THEN "wait" ELSE "check"]]
  /\ UNCHANGED <<smVars, rtVars, apiVars, tasks, hm_obs>>

\* _check_container_health up to the recording of the status that was read
check_container_health(t) ==
  /\ hm.threads[t].pc = "check"
  /\ LET cid == Head(hm.threads[t].containers_to_check)
     IN  \/ \* containers.get raises NotFound
            /\ cid \notin DOMAIN docker
            /\ hm' = [stop_monitoring(hm, cid, t).h EXCEPT !.threads[t] = next_container(@)]
            /\ UNCHANGED hm_obs
         \/ \* the state is read and recorded
            /\ cid \in DOMAIN docker
            /\ LET health_status == extract_health_status(docker[cid])
               IN  /\ hm' = [hm EXCEPT
                        !.last_check_time = Put(@, cid, now),
                        !.health_status = Put(@, cid, health_status),
                        !.threads[t] =
                           IF health_status \in {"unhealthy", "healthy"}
                           THEN [@ EXCEPT !.pc = "handle", !.health_status = health_status]
                           ELSE next_container(@)]
                   /\ hm_obs' = [hm_obs EXCEPT !.streak[cid] =
                        IF health_status = "unhealthy" /\ @ >= 0 THEN @ + 1 ELSE -1]
         \/ \* the runtime answers with an error: before or after the check time is set
            /\ cid \in DOMAIN docker
            /\ \E reloaded \in BOOLEAN :
                 hm' = [hm EXCEPT
                    !.last_check_time = IF reloaded THEN Put(@, cid, now) ELSE @,
                    !.health_status = Put(@, cid, "unknown"),
                    !.threads[t] = next_container(@)]
            /\ hm_obs' = [hm_obs EXCEPT !.streak[cid] = -1]
  /\ UNCHANGED <<smVars, rtVars, apiVars, tasks>>

\* with self._lock: self._failure_counts[container_id] = 0
reset_failure_count(h, cid) == [h EXCEPT !.failure_counts = Put(@, cid, 0)]

\* _check_container_health after the status is recorded: an unhealthy container is
\* handled, the failure count of a healthy one is reset
handle_check_result(t) ==
  /\ hm.threads[t].pc = "handle"
  /\ LET cid == Head(hm.threads[t].containers_to_check)
     IN  IF hm.threads[t].health_status = "unhealthy"
         THEN LET r == handle_unhealthy_container(hm, cid, t)
              IN  /\ hm' = [r.h EXCEPT !.threads[t] = next_container(@)]
                  /\ tasks' = tasks
                       \cup (IF r.restart
                             THEN {[kind |-> "restart", container_id |-> cid,
                                    attempt |-> r.h.recovery_attempts[cid]]}
                             ELSE {})
                       \cup (IF r.cleanup
                             THEN {[kind |-> "cleanup", container_id |-> cid, attempt |-> 0]}
                             ELSE {})
                  /\ hm_obs' = [hm_obs EXCEPT !.escalated =
                                  IF r.marked THEN @ \cup {cid} ELSE @]
         ELSE /\ hm' = [reset_failure_count(hm, cid) EXCEPT
                                  !.threads[t] = next_container(@)]
              /\ UNCHANGED <<tasks, hm_obs>>
  /\ UNCHANGED <<smVars, rtVars, apiVars>>

\* a restart made inside the locked block: restart, reload and reset in one step
attempt_container_restart_locked(task) ==
  /\ task \in tasks
  /\ task.kind = "restart"
  /\ tasks' = tasks \ {task}
  /\ task.container_id \in DOMAIN docker
  /\ docker' = [docker EXCEPT ![task.container_id].running = TRUE,
                              ![task.container_id].exit_code = 0,
                              ![task.container_id].health =
                                 IF @ = "none" THEN "none" ELSE "starting"]
  /\ hm' = reset_failure_count(hm, task.container_id)
  /\ UNCHANGED <<smVars, active_containers, apiVars, hm_obs>>

\* _attempt_container_restart(container_id, container), in a thread of its own, up
\* to container.restart(timeout=30); time.sleep(10) follows
attempt_container_restart(task) ==
  /\ task \in tasks
  /\ task.kind = "restart"
  /\ LET cid == task.container_id
         settle == [task EXCEPT !.kind = "settle"]
     IN  \/ \* the container is gone, or the runtime refuses: the exception is logged
            /\ tasks' = tasks \ {task}
            /\ UNCHANGED docker
         \/ \* the container restarts
            /\ cid \in DOMAIN docker
            /\ docker' = [docker EXCEPT ![cid].running = TRUE, ![cid].exit_code = 0,
                            ![cid].health = IF @ = "none" THEN "none" ELSE "starting"]
            /\ tasks' = (tasks \ {task}) \cup {settle}
  /\ UNCHANGED <<smVars, active_containers, apiVars, hm, hm_obs>>

\* _attempt_container_restart after the sleep: container.reload(), and the failure
\* count is reset if the container runs (its process may have exited meanwhile)
restart_verify(task) ==
  /\ task \in tasks
  /\ task.kind = "settle"
  /\ tasks' = tasks \ {task}
  /\ LET cid == task.container_id
     IN  IF cid \in DOMAIN docker /\ docker[cid].running
         THEN hm' = reset_failure_count(hm, cid)
         ELSE UNCHANGED hm           \* NotFound is logged, 'exited' is a warning
  /\ UNCHANGED <<smVars, rtVars, apiVars, hm_obs>>

\* _cleanup_failed_container(container_id, challenge_id, user_id), in a thread of
\* its own
cleanup_failed_container(task) ==
  /\ task \in tasks
  /\ task.kind = "cleanup"
  /\ tasks' = tasks \ {task}
  /\ LET cid == task.container_id
     IN  \/ \* NotFound: already removed
            /\ cid \notin DOMAIN docker
            /\ UNCHANGED docker
         \/ \* killed if it runs, then removed
            /\ cid \in DOMAIN docker
            /\ docker' = Drop(docker, cid)
         \/ \* it ran when its status was read and has exited when kill is called:
            \* kill raises APIError and remove is not reached
            /\ cid \in DOMAIN docker
            /\ docker[cid].running
            /\ docker' = [docker EXCEPT ![cid].running = FALSE, ![cid].exit_code = 1]
  /\ UNCHANGED <<smVars, active_containers, apiVars, hm, hm_obs>>

NextHM ==
  \/ Tick /\ UNCHANGED <<rtVars, apiVars, hmVars>>
  \/ \E r \in RunInputs : container_run(r[1], r[2])
  \/ \E c \in FailingContainers, st \in ContainerStates : container_state_change(c, st)
  \/ \E c \in FailingContainers : container_removed(c)
  \/ \E w \in WatchInputs, t \in LoopThreads :       \* watches are placed at the start
        now = StartTime /\ start_monitoring(w[1], w[2], t)
  \/ \E c \in HMContainers : stop_monitoring_call(c)
  \/ \E t \in ThreadIds : monitor_wake(t)
  \/ \E t \in ThreadIds : monitor_list(t)
  \/ \E t \in ThreadIds : check_container_health(t)
  \/ \E t \in ThreadIds : handle_check_result(t)
  \/ \E task \in tasks : attempt_container_restart(task)
  \/ \E task \in tasks : restart_verify(task)
  \/ \E task \in tasks : cleanup_failed_container(task)

SpecHM == Init /\ [][NextHM]_vars

(***************************************************************************)
(* Properties of the Session Registry                                      *)
(***************************************************************************)
Range(seq) == {seq[i] : i \in 1..Len(seq)}

Count(list, x) == Cardinality({i \in 1..Len(list) : list[i] = x})

\* number of sessions of the map that belong to uid
Recorded(s, uid) == Cardinality({i \in 1..Len(s) : s[i].user_id = uid})

ReadOps == {"get_session", "get_session_by_id", "list_user_sessions"}

RemoveOps == {"cleanup_session", "auto_cleanup_session"}

\* a create_session call with valid arguments by user u
ValidCreate(u) ==
  \E c \in Workloads, t \in Timeouts : create_session(u, c, GoodInfo, t)

\* C2 (as claimed): a create for a user who holds N sessions fails with
\* UserSessionLimitError, the quota error a caller can tell from the generic
\* SessionManagerError.
C2_QuotaErrorIsDistinct ==
  [][\A u \in Users :
       (user_limit_reached(user_sessions, u) /\ ValidCreate(u))
          => ret'.status = "UserSessionLimitError"]_vars

\* C3: for every user, the per-user index and the sessions recorded for the user
\* hold at most N entries; a create that finds the quota reached raises and leaves
\* the session map and the index as they were.
C3_QuotaBound ==
  /\ [](\A u \in Users : /\ Len(UserList(user_sessions, u)) <= max_sessions_per_user
                         /\ Recorded(sessions, u) <= max_sessions_per_user)
  /\ [][\A u \in Users :
          (user_limit_reached(user_sessions, u) /\ ValidCreate(u))
             => /\ ret'.status # "ok"
                /\ sessions' = sessions
                /\ user_sessions' = user_sessions]_vars

C3_Witness ==
  /\ ret.op = "create_session" /\ ret.status # "ok" /\ ret.args = <<"alice", "w1">>
  /\ Len(UserList(user_sessions, "alice")) = max_sessions_per_user
  /\ Recorded(sessions, "alice") = max_sessions_per_user
  /\ Len(UserList(user_sessions, "bob")) = 0

\* C4 (as claimed): a get or getById of a session performed at a time >= its
\* expires_at returns None.
C4_AbsentFromExpiryOn ==
  [][/\ \A sid \in SessionIds :
          (sid \in Keys(sessions) /\ now >= Lookup(sessions, sid).expires_at
             /\ get_session_by_id(sid)) => ret'.status = "None"
     /\ \A u \in Users, c \in Workloads :
          ((\E i \in 1..Len(sessions) :
                   /\ sessions[i].user_id = u /\ sessions[i].challenge_id = c
                   /\ now >= sessions[i].expires_at)
             /\ get_session(u, c)) => ret'.status = "None"]_vars

\* C4 (amended): a getById performed strictly after expires_at returns None and
\* marks the session expired; a get(user, workload) whose scan stops at a session
\* whose expires_at has passed returns None and marks that session expired; no get
\* or getById returns a session whose expires_at lies before the time of the read.
C4_LazyExpiry ==
  [][/\ \A sid \in SessionIds :
          (sid \in Keys(sessions) /\ now > Lookup(sessions, sid).expires_at
             /\ get_session_by_id(sid))
          => /\ ret'.status = "None"
             /\ sid \in Keys(sessions')
             /\ Lookup(sessions', sid).status = "expired"
     /\ \A u \in Users, c \in Workloads :
          LET i == first_active(sessions, u, c)
          IN  /\ (i # 0 /\ now > sessions[i].expires_at /\ get_session(u, c))
                 => /\ ret'.status = "None"
                    /\ sessions'[i].status = "expired"
              /\ (ret'.sess # <<>> /\ get_session(u, c))
                 => \A r \in Range(ret'.sess) : now <= r.expires_at
     /\ \A sid \in SessionIds :
          (ret'.sess # <<>> /\ get_session_by_id(sid))
             => \A r \in Range(ret'.sess) : now <= r.expires_at]_vars

C4_Witness ==
  /\ ret.op = "get_session_by_id" /\ ret.status = "None"
  /\ ret.args[1] \in Keys(sessions)
  /\ Lookup(sessions, ret.args[1]).status = "expired"
  /\ now > Lookup(sessions, ret.args[1]).expires_at

\* C5 (as claimed): no session stays in the registry with status active after its
\* expiry has passed.
C5_ActiveImpliesUnexpired ==
  \A i \in 1..Len(sessions) :
     sessions[i].status = "active" => ~(now > sessions[i].expires_at)

\* C5 (amended): a session is marked expired only after its expiry has passed, and
\* the accesses enforce the expiry: the session a getById names and the sessions a
\* listForUser walks are not left active past their expiry, and a sweep leaves no
\* session whose expires_at lies before the time the sweep read.
C5_ExpiryEnforcedOnAccess ==
  /\ [](\A i \in 1..Len(sessions) :
           /\ sessions[i].status \in {"active", "expired"}
           /\ sessions[i].status = "expired" => now > sessions[i].expires_at)
  /\ [][/\ \A sid \in SessionIds :
             (ret'.op = "get_session_by_id" /\ sid \in Keys(sessions')
                /\ get_session_by_id(sid))
                => ~(/\ Lookup(sessions', sid).status = "active"
                     /\ now > Lookup(sessions', sid).expires_at)
        /\ \A u \in Users :
             (ret'.op = "list_user_sessions" /\ list_user_sessions(u))
                => \A sid \in Range(UserList(user_sessions', u)) :
                      /\ sid \in Keys(sessions')
                      /\ ~(/\ Lookup(sessions', sid).status = "active"
                           /\ now > Lookup(sessions', sid).expires_at)
        /\ cleanup_expired_sessions
             => \A i \in 1..Len(sessions') : ~(sweep_time > sessions'[i].expires_at)]_vars

C5_Witness ==
  /\ ret.op = "cleanup_expired_sessions" /\ ret.n > 0
  /\ ret.args[1] = now
  /\ \E i \in 1..Len(sessions) : sessions[i].status = "active"
  /\ \A i \in 1..Len(sessions) : now <= sessions[i].expires_at

\* no timer and no sweep is left to run, and the clock has reached the end of the
\* time the model follows
Quiescent ==
  /\ now = MaxTime
  /\ timers = EmptyBag
  /\ sweep_pc = "idle"
  /\ cleanup_timer > now

\* C6 (as claimed): every session created is removed from the session map and from
\* the per-user index once the sweep and the one-shot timers have run: when none
\* of them is left to run, the registry is empty.
C6_AllRemovedOnceTimersRan ==
  Quiescent => (sessions = <<>> /\ \A u \in Users : UserList(user_sessions, u) = <<>>)

\* C7: a removal that has completed leaves the session id out of the session map,
\* and every get, getById and listForUser returns only records that are in the
\* session map when it returns.
C7_NoReadAfterRemoval ==
  /\ ret.op \in RemoveOps => ret.args[1] \notin Keys(sessions)
  /\ ret.op = "cleanup_expired_sessions"
        => \A i \in 1..Len(sessions) : ~(ret.args[1] > sessions[i].expires_at)
  /\ ret.op \in ReadOps => \A r \in Range(ret.sess) : r \in Range(sessions)

C7_Witness ==
  /\ ret.op = "get_session_by_id" /\ ret.status = "None"
  /\ ret.args[1] \notin Keys(sessions)
  /\ \E t \in BagToSet(timers) : t.session_id = ret.args[1]

\* C8: remove(session_id) of a session in the map deletes the record and one entry
\* of the id from the list of the record's owner (the list itself when it becomes
\* empty), touches no other list and returns True; of an id not in the map it
\* returns False and changes nothing; a second remove changes nothing more.
C8_RemoveIdempotent ==
  /\ [][\A sid \in SessionIds :
          cleanup_session_call(sid) =>
            IF sid \in Keys(sessions)
            THEN LET owner == Lookup(sessions, sid).user_id
                 IN  /\ ret'.status = "True"
                     /\ sessions' = DictDel(sessions, sid)
                     /\ Count(UserList(user_sessions', owner), sid)
                          = Count(UserList(user_sessions, owner), sid) - 1
                     /\ Len(UserList(user_sessions', owner))
                          = Len(UserList(user_sessions, owner)) - 1
                     /\ \A u \in Users \ {owner} :
                          UserList(user_sessions', u) = UserList(user_sessions, u)
                     /\ \A u \in DOMAIN user_sessions' : user_sessions'[u] # <<>>
                          \/ (u \in DOMAIN user_sessions /\ user_sessions[u] = <<>>)
            ELSE /\ ret'.status = "False"
                 /\ sessions' = sessions
                 /\ user_sessions' = user_sessions]_vars
  /\ [](\A sid \in SessionIds :
          LET once  == cleanup_session(sessions, user_sessions, sid)
              twice == cleanup_session(once.s, once.u, sid)
          IN  twice.s = once.s /\ twice.u = once.u /\ ~twice.ok)

C8_Witness ==
  /\ ret.op = "cleanup_session" /\ ret.status = "True"
  /\ "alice" \notin DOMAIN user_sessions
  /\ "bob" \in DOMAIN user_sessions
  /\ sessions # <<>>

(***************************************************************************)
(* Properties of the provisioning request                                  *)
(***************************************************************************)
\* the active sessions the registry holds for (user_id, challenge_id)
active_for(s, user_id, challenge_id) ==
  {i \in 1..Len(s) : /\ s[i].user_id = user_id /\ s[i].challenge_id = challenge_id
                     /\ s[i].status = "active"}

\* C1 (as the specification states it): in every reachable state, whatever the
\* interleaving of the provisioning requests, each (user, workload) pair has at
\* most one active session in the registry and at most one instance started for it.
C1_OneInstancePerPair ==
  \A u \in Users, c \in Challenges :
    /\ Cardinality(active_for(sessions, u, c)) <= 1
    /\ Cardinality(running_for(docker, u, c)) <= 1

(***************************************************************************)
(* Properties of the Health Monitor                                        *)
(***************************************************************************)
\* C9 (as the specification states it): an instance whose every check read
\* unhealthy is out of the watched set once threshold + 1 checks are done, and an
\* instance that was escalated is removed from the runtime: as long as it is still
\* there, a cleanup of it is still to run.
C9_EscalatedIsDestroyed ==
  /\ \A c \in HMContainers :
       (/\ hm_obs.streak[c] >= FAILURE_THRESHOLD + 1
        /\ \A t \in ThreadIds : hm.threads[t].pc = "handle"
              => Head(hm.threads[t].containers_to_check) # c)
         => c \notin Watched(hm.monitored_containers)
  /\ \A c \in hm_obs.escalated :
       \/ c \notin DOMAIN docker
       \/ \E task \in tasks : task.kind = "cleanup" /\ task.container_id = c

\* C10 (as the specification states it): in every reachable state the four
\* tracking maps have entries exactly for the watched instances.
C10_TrackingExactlyWatched ==
  LET W == Watched(hm.monitored_containers)
  IN  /\ DOMAIN hm.health_status = W
      /\ DOMAIN hm.failure_counts = W
      /\ DOMAIN hm.last_check_time = W
      /\ DOMAIN hm.recovery_attempts = W


(***************************************************************************)
(* The monitoring loop under stop-then-start                               *)
(***************************************************************************)
\* one healthy container, watched and unwatched by clients, and both threads that
\* _start_monitor_thread may create
NextLoop ==
  \/ Tick /\ UNCHANGED <<rtVars, apiVars, hmVars>>
  \/ container_run("c1", TRUE)
  \/ \E t \in ThreadIds : start_monitoring("c1", DEFAULT_CHECK_INTERVAL, t)
  \/ stop_monitoring_call("c1")
  \/ \E t \in ThreadIds : monitor_wake(t)
  \/ \E t \in ThreadIds : monitor_list(t)
  \/ \E t \in ThreadIds : check_container_health(t)
  \/ \E t \in ThreadIds : handle_check_result(t)

SpecLoop == Init /\ [][NextLoop]_vars

\* the threads that execute _monitor_loop
LoopsAlive == {t \in ThreadIds : hm.threads[t].pc # "dead"}

\* C11 (as claimed): at most one monitoring loop executes at any time, and the
\* monitor counts as running exactly when at least one instance is watched, across
\* any sequence of unwatch-the-last-instance then watch-again.
C11_SingleLoop ==
  /\ Cardinality(LoopsAlive) <= 1
  /\ hm.running <=> (hm.monitored_containers # <<>>)


(***************************************************************************)
(* Properties of the recorded health status                                *)
(***************************************************************************)
\* the transitions of the state machine of a watched instance
StatusEdges ==
  {<<"unknown", "starting">>, <<"unknown", "healthy">>, <<"unknown", "unhealthy">>,
   <<"starting", "healthy">>, <<"starting", "unhealthy">>,
   <<"healthy", "unhealthy">>, <<"unhealthy", "healthy">>}

\* c is watched and has a recorded status before and after the step
WatchedAcross(c) ==
  /\ c \in Watched(hm.monitored_containers) /\ c \in DOMAIN hm.health_status
  /\ c \in Watched(hm'.monitored_containers) /\ c \in DOMAIN hm'.health_status

\* C12 (as claimed): while an instance is watched its recorded status changes only
\* along unknown -> {starting, healthy, unhealthy}, starting -> {healthy,
\* unhealthy} and healthy <-> unhealthy.
C12_OnlyStateMachineEdges ==
  [][\A c \in HMContainers :
       (WatchedAcross(c) /\ hm'.health_status[c] # hm.health_status[c])
          => <<hm.health_status[c], hm'.health_status[c]>> \in StatusEdges]_vars

\* C12 (amended): the recorded status of an instance is always one of unknown,
\* starting, healthy, unhealthy and never none; while the instance is watched it
\* changes only to unknown (a watch that registers it again, or a check that
\* fails) or to the status a check derives from the state the runtime reports.
C12_StatusFollowsChecks ==
  /\ [](\A c \in DOMAIN hm.health_status :
           hm.health_status[c] \in {"unknown", "starting", "healthy", "unhealthy"})
  /\ [][\A c \in HMContainers :
          (WatchedAcross(c) /\ hm'.health_status[c] # hm.health_status[c])
             => \/ hm'.health_status[c] = "unknown"
                \/ /\ c \in DOMAIN docker
                   /\ hm'.health_status[c] = extract_health_status(docker[c])]_vars

\* a watched instance whose status a failed check has set back to unknown
C12_Witness ==
  \E c \in Watched(hm.monitored_containers) :
     /\ c \in DOMAIN hm.health_status /\ hm.health_status[c] = "unknown"
     /\ Get(hm.failure_counts, c, 0) > 0
     /\ Get(hm.last_check_time, c, 0) = now


(***************************************************************************)
(* The monitoring loop with several due containers and foreign containers  *)
(***************************************************************************)
\* the containers that are started here: two owned ones and one without labels
WatchRunInputs == {<<"c1", TRUE>>, <<"c2", TRUE>>, <<"c3", FALSE>>}

\* start_monitoring(container_id, check_interval) with the call kept in ret
start_monitoring_call(container_id, check_interval, t) ==
  /\ start_monitoring_body(container_id, check_interval, t)
  /\ ret' = Ret("start_monitoring", <<container_id>>, "ok", <<>>, 0)
  /\ UNCHANGED <<now, sessions, user_sessions, timers, cleanup_timer, sweep_pc,
                 sweep_time, rtVars, apiVars>>

NextWatch ==
  \/ Tick /\ UNCHANGED <<rtVars, apiVars, hmVars>>
  \/ \E r \in WatchRunInputs : container_run(r[1], r[2])
  \/ \E c \in HMContainers : container_removed(c)
  \/ \E c \in ContainerIds, t \in LoopThreads :
        start_monitoring_call(c, DEFAULT_CHECK_INTERVAL, t)
  \/ \E c \in HMContainers : stop_monitoring_call(c)
  \/ \E t \in LoopThreads : monitor_wake(t)
  \/ \E t \in LoopThreads : monitor_list(t)
  \/ \E t \in LoopThreads : check_container_health(t)
  \/ \E t \in LoopThreads : handle_check_result(t)

SpecWatch == Init /\ [][NextWatch]_vars

\* C13 (as claimed): whatever exception the check of a watched instance raises,
\* the instance stays watched, the remaining due instances of the pass are still
\* checked and the loop does not terminate.
C13_AnyFailureKeepsWatched ==
  [][\A t \in LoopThreads :
       (hm.threads[t].pc = "check" /\ check_container_health(t))
          => LET list == hm.threads[t].containers_to_check
                 cid  == Head(list)
             IN  /\ cid \in Watched(hm.monitored_containers)
                       => cid \in Watched(hm'.monitored_containers)
                 /\ hm'.stop_event = hm.stop_event
                 /\ hm'.threads[t].pc # "dead"
                 /\ hm'.threads[t].containers_to_check \in {list, Tail(list)}]_vars

\* C13 (amended): a check that fails with an error other than not-found records
\* the status unknown, leaves the instance watched and the stop event untouched,
\* and the loop goes on to the next due instance of the pass or to the wait before
\* the next pass; a check that finds the instance gone unwatches it and also goes
\* on to the next due instance; no check ends the loop thread, which ends only
\* once the stop event is set.
C13_CheckFailureIsolated ==
  /\ [][\A t \in LoopThreads :
          (hm.threads[t].pc = "check" /\ check_container_health(t))
             => LET list == hm.threads[t].containers_to_check
                    cid  == Head(list)
                IN  /\ hm'.threads[t].pc # "dead"
                    /\ hm'.threads[t].containers_to_check \in {list, Tail(list)}
                    /\ cid \in DOMAIN docker
                          => /\ cid \in Watched(hm.monitored_containers)
                                   => cid \in Watched(hm'.monitored_containers)
                             /\ hm'.stop_event = hm.stop_event
                    /\ (cid \in DOMAIN docker /\ hm'.health_status[cid] = "unknown")
                          => /\ hm'.threads[t].containers_to_check = Tail(list)
                             /\ hm'.threads[t].pc \in {"check", "wait"}
                    /\ cid \notin DOMAIN docker
                          => /\ cid \notin Watched(hm'.monitored_containers)
                             /\ hm'.threads[t].containers_to_check = Tail(list)]_vars
  /\ [][\A t \in LoopThreads :
          (hm.threads[t].pc # "dead" /\ hm'.threads[t].pc = "dead")
             => hm'.stop_event]_vars

\* the check of c1 failed in this pass and the loop is about to check c2
C13_Witness ==
  /\ hm.threads["t1"].pc = "check"
  /\ hm.threads["t1"].containers_to_check = <<"c2">>
  /\ {"c1", "c2"} \subseteq Watched(hm.monitored_containers)
  /\ "c1" \in DOMAIN docker
  /\ Get(hm.health_status, "c1", "") = "unknown"
  /\ Get(hm.last_check_time, "c1", 0) = now

\* C20: a watch of an instance that does not exist in the runtime, or that lacks
\* the ownership label, leaves the whole state of the Health Monitor as it was:
\* watched set, tracking maps, running flag, stop event and threads.
C20_ForeignWatchIsNoOp ==
  [][\A c \in ContainerIds, t \in LoopThreads :
       ((c \notin DOMAIN docker \/ ~docker[c].owned)
          /\ start_monitoring_call(c, DEFAULT_CHECK_INTERVAL, t))
          => /\ hm' = hm
             /\ tasks' = tasks
             /\ c \notin Watched(hm.monitored_containers)
                   => c \notin Watched(hm'.monitored_containers)]_vars

\* the watch of the unlabelled container c3 has returned and nothing is watched
C20_Witness ==
  /\ ret.op = "start_monitoring" /\ ret.args = <<"c3">>
  /\ "c3" \in DOMAIN docker /\ ~docker["c3"].owned
  /\ hm.monitored_containers = <<>>
  /\ ~hm.running
  /\ \A t \in ThreadIds : hm.threads[t].pc = "dead"


(***************************************************************************)
(* Flags: the token functions (engine/flag_system.py), minting at spawn    *)
(* and validation (engine/orchestrator.py)                                 *)
(***************************************************************************)
\* the characters of a hexdigest
HexDigits ==
  <<"0", "1", "2", "3", "4", "5", "6", "7", "8", "9", "a", "b", "c", "d", "e", "f">>

\* mac.hexdigest()[:16]
HEX_LEN == 16

\* f"flag{{{hex_hash}}}"
FlagPrefix == <<"f", "l", "a", "g", "{">>
FlagSuffix == <<"}">>

\* os.getenv('FLAG_SECRET_KEY', 'default-secret-key-change-in-production')
get_flag_secret_key == "default-secret-key-change-in-production"

\* f"timestamp:{int(time.time())},nonce:{session_id}"
instance_data_of(timestamp, nonce) ==
  "timestamp:" \o ToString(timestamp) \o ",nonce:" \o nonce

\* the strings the token functions are applied to
SecretKeys == {get_flag_secret_key, "test-secret-key-123"}
FlagChallengeIds == Workloads \cup {"w1:al"}
FlagUserIds == Users \cup {"ice", "al:ice"}
Timestamps == {StartTime + k * TickLen : k \in 0..MaxTicks}
TestInstanceData == {"ts:1234,nonce:abc", "different-data"}
FlagInstanceData ==
  TestInstanceData \cup {instance_data_of(t, n) : t \in Timestamps, n \in Nonces}

\* combined_input = f"{challenge_id}:{user_id}:{instance_data}"
combined_input(challenge_id, user_id, instance_data) ==
  challenge_id \o ":" \o user_id \o ":" \o instance_data

\* every string that is hashed, every key, in one fixed order
RECURSIVE Listing(_)
Listing(S) ==
  IF S = {} THEN <<>>
  ELSE LET x == CHOOSE x \in S : TRUE IN <<x>> \o Listing(S \ {x})

HashedInputs ==
  Listing({combined_input(w, u, i) :
             w \in FlagChallengeIds, u \in FlagUserIds, i \in FlagInstanceData})
HashKeys == Listing(SecretKeys)

\* hmac.new(key, msg, sha256): HMAC-SHA256 taken as collision free, a number
\* that two (key, message) pairs share only if they are the same pair
hmac_new(secret_key, msg) ==
  LET k == CHOOSE i \in 1..Len(HashKeys) : HashKeys[i] = secret_key
      m == CHOOSE i \in 1..Len(HashedInputs) : HashedInputs[i] = msg
  IN  (k - 1) * Len(HashedInputs) + m

\* mac.hexdigest()[:16]: sixteen lowercase hexadecimal digits; the numbers of
\* hmac_new stay below 16^8, so the leading digits are 0
hexdigest(mac) ==
  [i \in 1..HEX_LEN |->
     IF HEX_LEN - i >= 8 THEN HexDigits[1]
     ELSE HexDigits[((mac \div (16 ^ (HEX_LEN - i))) % 16) + 1]]

\* a Python value handed over as a flag: a str with its characters, or a value
\* of another type
PyStr(chars) == [is_str |-> TRUE, chars |-> chars]
NotStr == [is_str |-> FALSE, chars |-> <<>>]

\* generate_unique_flag(challenge_id, user_id, instance_data, secret_key)
generate_unique_flag(challenge_id, user_id, instance_data, secret_key) ==
  LET mac == hmac_new(secret_key, combined_input(challenge_id, user_id, instance_data))
      hex_hash == hexdigest(mac)
  IN  FlagPrefix \o hex_hash \o FlagSuffix

\* a generator that signs with the default key instead of its own
FlagGenerator_generate_default(self, challenge_id, user_id, instance_data) ==
  generate_unique_flag(challenge_id, user_id, instance_data, get_flag_secret_key)

\* FlagGenerator(secret_key).generate(challenge_id, user_id, instance_data)
FlagGenerator_generate(self, challenge_id, user_id, instance_data) ==
  generate_unique_flag(challenge_id, user_id, instance_data, self.secret_key)

\* re.match(r'^flag\{[0-9a-f]{16}\}$', flag): the pattern from the start of the
\* string, '$' matching at the end of the string and also just before a
\* newline that ends the string
re_match_pattern(s) ==
  LET body == Len(FlagPrefix) + HEX_LEN + Len(FlagSuffix)
  IN  /\ Len(s) \in {body, body + 1}
      /\ SubSeq(s, 1, Len(FlagPrefix)) = FlagPrefix
      /\ \A i \in (Len(FlagPrefix) + 1)..(Len(FlagPrefix) + HEX_LEN) :
            \E h \in 1..Len(HexDigits) : s[i] = HexDigits[h]
      /\ SubSeq(s, body, body) = FlagSuffix
      /\ Len(s) = body + 1 => s[body + 1] = "\n"

\* _is_valid_flag_format(flag)
is_valid_flag_format(flag) ==
  IF ~flag.is_str THEN FALSE
  ELSE re_match_pattern(flag.chars)

\* hmac.compare_digest(a, b)
compare_digest(a, b) == a = b

\* validate_flag(flag, challenge_id, user_id, instance_data, secret_key) of
\* flag_system.py: what it returns, whether it computed the expected flag, and
\* the exception of flag.encode on a value that is not a str
token_validate_flag(flag, challenge_id, user_id, instance_data, secret_key) ==
  IF ~is_valid_flag_format(flag)
  THEN [result |-> FALSE, recomputed |-> FALSE, raised |-> ""]
  ELSE LET expected_flag ==
             generate_unique_flag(challenge_id, user_id, instance_data, secret_key)
       IN  IF ~flag.is_str
           THEN [result |-> FALSE, recomputed |-> TRUE, raised |-> "AttributeError"]
           ELSE [result |-> compare_digest(flag.chars, expected_flag),
                 recomputed |-> TRUE, raised |-> ""]

\* FlagValidator(secret_key).validate(flag, challenge_id, user_id, instance_data)
FlagValidator_validate(self, flag, challenge_id, user_id, instance_data) ==
  token_validate_flag(flag, challenge_id, user_id, instance_data, self.secret_key)

\* the CHALLENGE_FLAG a container was started with
challenge_flag(container) ==
  generate_unique_flag(container.challenge_id, container.user_id,
                       instance_data_of(container.flag_nonce.timestamp,
                                        container.flag_nonce.nonce),
                       get_flag_secret_key)

\* orchestrator.validate_flag(challenge_id, user_id, submitted_flag): the results
\* it can give, one for each container the runtime may list first
validate_flag(d, challenge_id, user_id, submitted_flag) ==
  LET containers == running_for(d, user_id, challenge_id)
  IN  IF containers = {} THEN {"False"}
      ELSE {IF token_validate_flag(PyStr(submitted_flag), challenge_id, user_id,
                                   instance_data_of(d[c].started, d[c].session),
                                   get_flag_secret_key).result
            THEN "True" ELSE "False" : c \in containers}

\* the user of container c submits the flag found in it
submit_flag(c) ==
  /\ c \in DOMAIN docker
  /\ docker[c].owned /\ docker[c].running
  /\ \E result \in validate_flag(docker, docker[c].challenge_id, docker[c].user_id,
                                 challenge_flag(docker[c])) :
        ret' = Ret("validate_flag", <<docker[c].challenge_id, docker[c].user_id, c>>,
                   result, <<>>, 0)
  /\ UNCHANGED <<now, sessions, user_sessions, timers, cleanup_timer, sweep_pc,
                 sweep_time, rtVars, apiVars, hmVars>>

\* one worker serving spawn requests of one user for one challenge, the clock, and
\* the submission of flags
NextFlag ==
  \/ Tick /\ UNCHANGED <<rtVars, apiVars, hmVars>>
  \/ api_spawn_begin("r1", "alice", "w1", 100)
  \/ api_spawn_get("r1")
  \/ spawn_challenge_mint("r1")
  \/ spawn_challenge_run("r1")
  \/ api_spawn_create("r1")
  \/ api_respond("r1")
  \/ \E c \in ContainerIds : submit_flag(c)

SpecFlag == Init /\ [][NextFlag]_vars

\* C16 (as claimed): for a running instance created by spawn, the instance data
\* that validate_flag rebuilds from the instance's labels equals the instance data
\* the injected flag was minted from, and the injected flag validates, whatever
\* time elapses between the steps of spawn.
C16_InjectedFlagValidates ==
  [][\A c \in ContainerIds :
       (/\ c \in DOMAIN docker
        /\ running_for(docker, docker[c].user_id, docker[c].challenge_id) = {c}
        /\ submit_flag(c))
          => /\ [timestamp |-> docker[c].started, nonce |-> docker[c].session]
                   = docker[c].flag_nonce
             /\ ret'.status = "True"]_vars


(***************************************************************************)
(* Stopping: ChallengeOrchestrator.stop_challenge and the stop request     *)
(* (api/challenges.py, DELETE /api/challenges/<session_id>)                *)
(***************************************************************************)
\* a container whose process has exited
Exited == [running |-> FALSE, exit_code |-> 1, health |-> "none"]

\* stop_challenge up to the label test: containers.get raises NotFound, the
\* container lacks the label 'dvc.challenge.id' (ChallengeError), or it is found
stop_challenge_lookup(d, cid) ==
  IF cid \notin DOMAIN d THEN "NotFound"
  ELSE IF ~has_challenge_label(d[cid]) THEN "ChallengeError"
  ELSE "ok"

\* stop_challenge once the lookup has found a challenge container: the outcomes of
\* stop or kill, remove and the update of active_containers.  A container that is
\* gone by now raises NotFound (tracking entry deleted, False); kill on a container
\* that does not run is refused by the runtime (APIError, raised again as
\* ChallengeError); otherwise the container is removed and the entry marked
\* stopped (True), or the runtime fails the call (ChallengeError)
stop_challenge_act(d, ac, cid, force) ==
  IF cid \notin DOMAIN d
  THEN {[d |-> d, ac |-> Drop(ac, cid), result |-> "False"]}
  ELSE IF force /\ ~d[cid].running
  THEN {[d |-> d, ac |-> ac, result |-> "ChallengeError"]}
  ELSE {[d |-> Drop(d, cid),
         ac |-> IF cid \in DOMAIN ac THEN Put(ac, cid, "stopped") ELSE ac,
         result |-> "True"],
        [d |-> d, ac |-> ac, result |-> "ChallengeError"]}

\* stop_challenge(container_id, force) with nothing running in between
stop_challenge(d, ac, cid, force) ==
  LET found == stop_challenge_lookup(d, cid)
  IN  IF found = "NotFound" THEN {[d |-> d, ac |-> Drop(ac, cid), result |-> "False"]}
      ELSE IF found = "ChallengeError" THEN {[d |-> d, ac |-> ac, result |-> "ChallengeError"]}
      ELSE stop_challenge_act(d, ac, cid, force)

\* what the caller of stop_challenge does with its result: a direct call is over;
\* the request handler goes on to the eviction, or answers 500 to a ChallengeError
after_stop(rq, result) ==
  IF rq.session_id = "" THEN IdleRequest
  ELSE IF result = "ChallengeError"
  THEN [rq EXCEPT !.pc = "done", !.code = http_status("ChallengeError"), !.stopped = result]
  ELSE [rq EXCEPT !.pc = "stop_evict", !.stopped = result]

\* orchestrator.stop_challenge(container_id, force) is called directly
stop_challenge_begin(r, container_id, force) ==
  /\ req[r].pc = "idle"
  /\ req' = [req EXCEPT ![r] = [IdleRequest EXCEPT !.pc = "stop_lookup",
                                  !.container_id = container_id, !.force = force]]
  /\ UNCHANGED <<smVars, rtVars, hmVars>>

\* stop_challenge: containers.get and the label test
stop_challenge_get(r) ==
  /\ req[r].pc = "stop_lookup"
  /\ LET cid   == req[r].container_id
         found == stop_challenge_lookup(docker, cid)
     IN  IF found = "ok"
         THEN /\ req' = [req EXCEPT ![r].pc = "stop_act"]
              /\ UNCHANGED <<active_containers, ret>>
         ELSE LET result == IF found = "NotFound" THEN "False" ELSE "ChallengeError"
              IN  /\ active_containers' = IF found = "NotFound"
                                          THEN Drop(active_containers, cid)
                                          ELSE active_containers
                  /\ ret' = Ret("stop_challenge", <<cid>>, result, NoResult, 0)
                  /\ req' = [req EXCEPT ![r] = after_stop(@, result)]
  /\ UNCHANGED <<now, sessions, user_sessions, timers, cleanup_timer, sweep_pc,
                 sweep_time, docker, hmVars>>

\* stop_challenge: stop or kill, remove, and the update of active_containers
stop_challenge_stop(r) ==
  /\ req[r].pc = "stop_act"
  /\ \E o \in stop_challenge_act(docker, active_containers, req[r].container_id,
                                 req[r].force) :
        /\ docker' = o.d
        /\ active_containers' = o.ac
        /\ ret' = Ret("stop_challenge", <<req[r].container_id>>, o.result, NoResult, 0)
        /\ req' = [req EXCEPT ![r] = after_stop(@, o.result)]
  /\ UNCHANGED <<now, sessions, user_sessions, timers, cleanup_timer, sweep_pc,
                 sweep_time, hmVars>>

\* the stop request enters: an empty or too short session id is a BadRequest
api_stop_begin(r, session_id) ==
  /\ req[r].pc = "idle"
  /\ req' = [req EXCEPT ![r] =
               IF session_id = ""
               THEN [IdleRequest EXCEPT !.pc = "done", !.code = http_status("BadRequest")]
               ELSE [IdleRequest EXCEPT !.pc = "stop_resolve", !.session_id = session_id]]
  /\ UNCHANGED <<smVars, rtVars, hmVars>>

\* session_data = session_manager.get_session_by_id(session_id); 404 if None
api_stop_resolve(r) ==
  /\ req[r].pc = "stop_resolve"
  /\ get_session_by_id(req[r].session_id)
  /\ req' = [req EXCEPT ![r] =
               IF ret'.status = "ok"
               THEN [@ EXCEPT !.pc = "stop_lookup",
                              !.container_id = ret'.sess[1].container_id,
                              !.challenge_id = ret'.sess[1].challenge_id,
                              !.user_id = ret'.sess[1].user_id]
               ELSE [@ EXCEPT !.pc = "done", !.code = 404]]
  /\ UNCHANGED <<rtVars, hmVars>>

\* session_cleaned = session_manager.cleanup_session(session_id), and the answer
api_stop_evict(r) ==
  /\ req[r].pc = "stop_evict"
  /\ cleanup_session_call(req[r].session_id)
  /\ req' = [req EXCEPT ![r].pc = "done",
                        ![r].code = IF ret'.status = "True" THEN 200 ELSE 500]
  /\ UNCHANGED <<rtVars, hmVars>>

\* the containers that are started outside the orchestrator here
StopRunInputs == {<<"c1", TRUE>>, <<"c3", FALSE>>}

\* a worker that serves stop requests, sessions registered for container c1, and
\* containers that exit or are removed by others
NextStop ==
  \/ \E i \in StopRunInputs : container_run(i[1], i[2])
  \/ container_state_change("c1", Exited)
  \/ container_removed("c1")
  \/ create_session("alice", "w1", GoodInfo, 100) /\ UNCHANGED <<rtVars, apiVars, hmVars>>
  \/ \E sid \in SessionIds \cup {""} : api_stop_begin("r2", sid)
  \/ api_stop_resolve("r2")
  \/ stop_challenge_get("r2")
  \/ stop_challenge_stop("r2")
  \/ api_stop_evict("r2")
  \/ api_respond("r2")

SpecStop == Init /\ [][NextStop]_vars

\* a worker r1 that serves spawn requests, direct stop_challenge calls followed in
\* r2, a container without labels, and containers that exit or are removed by
\* others
NextOrchStop ==
  \/ container_run("c3", FALSE)
  \/ container_state_change("c1", Exited)
  \/ \E c \in HMContainers : container_removed(c)
  \/ api_spawn_begin("r1", "alice", "w1", 100)
  \/ api_spawn_get("r1")
  \/ spawn_challenge_mint("r1")
  \/ spawn_challenge_run("r1")
  \/ api_spawn_create("r1")
  \/ api_respond("r1")
  \/ \E c \in ContainerIds, force \in BOOLEAN : stop_challenge_begin("r2", c, force)
  \/ stop_challenge_get("r2")
  \/ stop_challenge_stop("r2")

SpecOrchStop == Init /\ [][NextOrchStop]_vars

\* request r is inside a stop request that has resolved its session
InStopRequest(r) ==
  /\ req[r].session_id # ""
  /\ req[r].pc \in {"stop_lookup", "stop_act", "stop_evict"}

\* list_running(): the running containers that carry the ownership label
list_running(d) == {c \in DOMAIN d : d[c].owned /\ d[c].running}

\* C15 (as claimed): when a stop request that resolved an active session
\* completes, the session is no longer in the registry and its instance is no
\* longer listed by the orchestrator, whatever the outcome of the terminate step.
C15_StopEvictsAndTerminates ==
  [][\A r \in Requests :
       (InStopRequest(r) /\ req'[r].pc = "done")
          => /\ req[r].session_id \notin Keys(sessions')
             /\ req[r].container_id \notin list_running(docker')]_vars

\* C17: a stop of a container the runtime holds without the ownership label ends
\* with ChallengeError at the label test: the runtime and the tracking map are
\* left as they were and no stop, kill or remove is reached.
C17_ForeignStopRefused ==
  [][\A r \in Requests :
       (/\ req[r].pc = "stop_lookup"
        /\ req[r].container_id \in DOMAIN docker
        /\ ~docker[req[r].container_id].owned
        /\ stop_challenge_get(r))
          => /\ ret'.status = "ChallengeError"
             /\ ret'.args = <<req[r].container_id>>
             /\ req'[r].pc # "stop_act"
             /\ docker' = docker
             /\ active_containers' = active_containers]_vars

\* the stop of the unlabelled container c3 was refused; c3 still runs
C17_Witness ==
  /\ ret.op = "stop_challenge" /\ ret.args = <<"c3">> /\ ret.status = "ChallengeError"
  /\ "c3" \in DOMAIN docker /\ ~docker["c3"].owned /\ docker["c3"].running
  /\ active_containers # << >>

\* C18: a stop of a container that is not in the runtime, at the lookup or at the
\* stop, kill or remove that follows it, returns False, raises nothing, leaves the
\* runtime as it is and leaves no entry for the container in the tracking map; a
\* stop that returns True has removed the container, so that the next stop of it
\* returns False.
C18_GoneStopReturnsFalse ==
  [][\A r \in Requests :
       LET cid == req[r].container_id
       IN  /\ (/\ req[r].pc \in {"stop_lookup", "stop_act"}
               /\ cid \notin DOMAIN docker
               /\ (stop_challenge_get(r) \/ stop_challenge_stop(r)))
                 => /\ ret'.status = "False" /\ ret'.args = <<cid>>
                    /\ cid \notin DOMAIN active_containers'
                    /\ docker' = docker
           /\ (/\ req[r].pc = "stop_act"
               /\ stop_challenge_stop(r)
               /\ ret'.status = "True")
                 => /\ cid \notin DOMAIN docker'
                    /\ stop_challenge(docker', active_containers', cid, req[r].force)
                         = {[d |-> docker', ac |-> Drop(active_containers', cid),
                             result |-> "False"]}]_vars

\* a tracked container vanished between the lookup and the stop: the stop has
\* returned False and the tracking entry is gone
C18_Witness ==
  /\ ret.op = "stop_challenge" /\ ret.status = "False"
  /\ ret.args[1] \notin DOMAIN docker
  /\ ret.args[1] \notin DOMAIN active_containers
  /\ active_containers # << >>


(***************************************************************************)
(* The orchestrator's sweep: ChallengeOrchestrator.cleanup_expired         *)
(***************************************************************************)
\* int(label) succeeds.  The labels of the model are numbers; a negative one
\* stands for a label that is not a decimal number, on which int() raises
\* ValueError
label_is_int(v) == v >= 0

\* the orders in which containers.list can return the containers of S
Orders(S) ==
  {o \in [1..Cardinality(S) -> S] : \A c \in S : \E i \in 1..Cardinality(S) : o[i] = c}

\* container c carries the ownership label and well-formed labels that put its
\* expiry before t
label_expired(d, c, t) ==
  /\ d[c].owned
  /\ label_is_int(d[c].started) /\ label_is_int(d[c].timeout)
  /\ t > d[c].started + d[c].timeout

RECURSIVE cleanup_loop(_, _, _, _, _)
\* the for loop of cleanup_expired over the listed containers: the states it can
\* end in, with the container whose stop raised, if any.  A ValueError is caught
\* inside the loop; a ChallengeError raised by stop_challenge leaves the loop and
\* is caught by the outer handler
cleanup_loop(d, ac, containers, current_time, cleaned_count) ==
  IF containers = <<>>
  THEN {[d |-> d, ac |-> ac, count |-> cleaned_count, failed |-> <<>>]}
  ELSE LET c == Head(containers)
       IN  IF ~(label_is_int(d[c].started) /\ label_is_int(d[c].timeout))
           THEN cleanup_loop(d, ac, Tail(containers), current_time, cleaned_count)
           ELSE IF current_time > d[c].started + d[c].timeout
           THEN UNION {IF o.result = "ChallengeError"
                       THEN {[d |-> o.d, ac |-> o.ac, count |-> cleaned_count,
                              failed |-> <<c>>]}
                       ELSE cleanup_loop(o.d, o.ac, Tail(containers), current_time,
                                         cleaned_count + 1)
                       : o \in stop_challenge(d, ac, c, TRUE)}
           ELSE cleanup_loop(d, ac, Tail(containers), current_time, cleaned_count)

\* cleanup_expired(): containers.list(filters={'label': 'dvc.challenge.id'},
\* all=True) and the loop over it; ret keeps the count that is returned and the
\* container whose stop raised
cleanup_expired ==
  /\ \E containers \in Orders({c \in DOMAIN docker : docker[c].owned}) :
       \E o \in cleanup_loop(docker, active_containers, containers, now, 0) :
          /\ docker' = o.d
          /\ active_containers' = o.ac
          /\ ret' = Ret("cleanup_expired", o.failed, "ok", NoResult, o.count)
  /\ UNCHANGED <<now, sessions, user_sessions, timers, cleanup_timer, sweep_pc,
                 sweep_time, apiVars, hmVars>>

\* a container that carries the ownership label is started: with the labels
\* spawn_challenge writes, or with a start label that is not a number
container_run_labelled(c, well_formed) ==
  /\ c \notin DOMAIN docker
  /\ docker' = Put(docker, c, [Container(TRUE, Started) EXCEPT
                                  !.started = IF well_formed THEN now ELSE -1,
                                  !.timeout = TickLen])
  /\ UNCHANGED <<smVars, active_containers, apiVars, hmVars>>

\* the containers that are started here, and whether their labels are well formed
SweepRunInputs == {<<"c1", TRUE>>, <<"c2", TRUE>>, <<"c3", FALSE>>}

NextSweep ==
  \/ Tick /\ UNCHANGED <<rtVars, apiVars, hmVars>>
  \/ \E i \in SweepRunInputs : container_run_labelled(i[1], i[2])
  \/ \E c \in HMContainers : container_state_change(c, Exited)
  \/ cleanup_expired

SpecSweep == Init /\ [][NextSweep]_vars

\* C19 (as claimed): when cleanup_expired returns, the runtime holds no container
\* with the ownership label, running or stopped, whose start + timeout lies before
\* the time the sweep read, other than one whose stop failed; malformed labels or
\* a container that cannot be stopped do not keep the sweep from the others.
C19_SweepLeavesNoExpired ==
  [][(ret'.op = "cleanup_expired" /\ cleanup_expired)
        => \A c \in DOMAIN docker' :
              label_expired(docker', c, now) => c \in Range(ret'.args)]_vars


(***************************************************************************)
(* Expiry of a session and the fate of its container                       *)
(***************************************************************************)
\* the registry's timers, as threading.Timer runs them
expiry_timer == \E t \in BagToSet(timers) : auto_cleanup_session(t)

\* containers started with the labels of spawn_challenge, a session registered
\* for container c1 while it runs, the clock, the registry's one-shot timers and
\* periodic sweep, reads by id, and the orchestrator's sweep when someone runs it
NextExpiry ==
  \/ Tick /\ UNCHANGED <<rtVars, apiVars, hmVars>>
  \/ \E c \in HMContainers : container_run_labelled(c, TRUE)
  \/ \E c \in HMContainers : container_state_change(c, Exited)
  \/ /\ "c1" \in list_running(docker)
     /\ create_session("alice", "w1", GoodInfo, TickLen)
     /\ UNCHANGED <<rtVars, apiVars, hmVars>>
  \/ \E sid \in SessionIds : get_session_by_id(sid) /\ UNCHANGED <<rtVars, apiVars, hmVars>>
  \/ expiry_timer /\ UNCHANGED <<rtVars, apiVars, hmVars>>
  \/ sweep_read_time /\ UNCHANGED <<rtVars, apiVars, hmVars>>
  \/ cleanup_expired_sessions /\ UNCHANGED <<rtVars, apiVars, hmVars>>
  \/ cleanup_expired

\* time passes and the timers the registry has started run; nothing in the
\* service calls cleanup_expired, which only the command line reaches
SpecExpiry ==
  /\ Init /\ [][NextExpiry]_vars
  /\ WF_vars(Tick /\ UNCHANGED <<rtVars, apiVars, hmVars>>)
  /\ WF_vars(expiry_timer /\ UNCHANGED <<rtVars, apiVars, hmVars>>)
  /\ WF_vars(sweep_read_time /\ UNCHANGED <<rtVars, apiVars, hmVars>>)
  /\ WF_vars(cleanup_expired_sessions /\ UNCHANGED <<rtVars, apiVars, hmVars>>)

\* a session of the registry is bound to container c, which runs, and its expiry
\* has passed
SessionExpiredFor(c) ==
  /\ c \in list_running(docker)
  /\ \E i \in 1..Len(sessions) :
        sessions[i].container_id = c /\ expired(now, sessions[i])

\* C14 (as claimed): once the session of a running instance has expired, the
\* instance is eventually terminated: it does not keep running indefinitely.
C14_ExpiredInstanceTerminated ==
  \A c \in HMContainers : SessionExpiredFor(c) ~> (c \notin list_running(docker))


(***************************************************************************)
(* The token functions on their own: generate_unique_flag, validate_flag   *)
(* and the two classes of engine/flag_system.py applied to strings         *)
(***************************************************************************)
\* sixteen hexadecimal digits no key of the model produces
SomeHex ==
  <<"1", "2", "3", "4", "5", "6", "7", "8", "9", "0", "a", "b", "c", "d", "e", "f">>

\* flags outside the format, the cases of test_malformed_flag_format among them
MalformedFlags ==
  {PyStr(<<"n", "o", "t", "a">> \o FlagPrefix \o SomeHex \o FlagSuffix),
   PyStr(FlagPrefix \o <<"1", "2", "3">> \o FlagSuffix),
   PyStr(FlagPrefix \o SomeHex \o <<"0">> \o FlagSuffix),
   PyStr(FlagPrefix \o [SomeHex EXCEPT ![HEX_LEN] = "g"] \o FlagSuffix),
   PyStr(FlagPrefix \o [SomeHex EXCEPT ![HEX_LEN] = "F"] \o FlagSuffix),
   PyStr(<<"f", "l", "a", "g">> \o SomeHex),
   PyStr(<<"{">> \o SomeHex \o FlagSuffix),
   PyStr(FlagPrefix \o SomeHex),
   PyStr(<<>>),
   PyStr(<<"\n">> \o FlagPrefix \o SomeHex \o FlagSuffix),
   PyStr(FlagPrefix \o SomeHex \o FlagSuffix \o <<"\n">>),
   PyStr(FlagPrefix \o SomeHex \o FlagSuffix \o <<"\n", "\n">>),
   NotStr}

\* the characters put in the place of one character of a flag, and the places:
\* the first and the last hexadecimal digit and the closing brace
AlterChars == {"0", "g"}
AlterPlaces ==
  {Len(FlagPrefix) + 1, Len(FlagPrefix) + HEX_LEN, Len(FlagPrefix) + HEX_LEN + 1}

\* flags that differ from flag in exactly one character
Altered(flag) ==
  {[flag EXCEPT ![i] = c] : i \in AlterPlaces, c \in AlterChars} \ {flag}

\* the inputs of the token functions
TokenInputs ==
  {"w1", "w1:al"} \X {"alice", "ice", "al:ice"} \X TestInstanceData \X SecretKeys

\* the flags submitted for validation in the context x
SubmittedFlags(x) ==
  LET minted == {generate_unique_flag(y[1], y[2], y[3], y[4]) : y \in TokenInputs}
  IN  {PyStr(f) : f \in minted}
        \cup {PyStr(f \o <<"\n">>) : f \in minted}
        \cup {PyStr(f) : f \in Altered(generate_unique_flag(x[1], x[2], x[3], x[4]))}
        \cup {PyStr(FlagPrefix \o SomeHex \o FlagSuffix)}
        \cup MalformedFlags

\* a call returns: only the record of the last call changes
OnlyRet ==
  UNCHANGED <<now, sessions, user_sessions, timers, cleanup_timer, sweep_pc,
              sweep_time, rtVars, apiVars, hmVars>>

\* generate_unique_flag(challenge_id, user_id, instance_data, secret_key)
generate_call(x) ==
  /\ ret' = Ret("generate", x, "ok",
                <<generate_unique_flag(x[1], x[2], x[3], x[4])>>, 0)
  /\ OnlyRet

\* FlagGenerator(secret_key).generate(challenge_id, user_id, instance_data)
generator_generate_call(x) ==
  /\ LET self == [secret_key |-> x[4]]
     IN  ret' = Ret("FlagGenerator.generate", x, "ok",
                    <<FlagGenerator_generate(self, x[1], x[2], x[3])>>, 0)
  /\ OnlyRet

\* what a call of validate leaves behind: the exception or the boolean, and
\* whether the expected flag was computed
validate_ret(op, flag, x, out) ==
  Ret(op, <<flag>> \o x,
      IF out.raised # "" THEN out.raised
      ELSE IF out.result THEN "True" ELSE "False",
      <<>>, IF out.recomputed THEN 1 ELSE 0)

\* validate_flag(flag, challenge_id, user_id, instance_data, secret_key)
validate_call(flag, x) ==
  /\ ret' = validate_ret("validate", flag, x,
                         token_validate_flag(flag, x[1], x[2], x[3], x[4]))
  /\ OnlyRet

\* FlagValidator(secret_key).validate(flag, challenge_id, user_id, instance_data)
validator_validate_call(flag, x) ==
  /\ LET self == [secret_key |-> x[4]]
     IN  ret' = validate_ret("FlagValidator.validate", flag, x,
                             FlagValidator_validate(self, flag, x[1], x[2], x[3]))
  /\ OnlyRet

NextToken ==
  \/ \E x \in TokenInputs : generate_call(x)
  \/ \E x \in TokenInputs : generator_generate_call(x)
  \/ \E x \in TokenInputs : \E flag \in SubmittedFlags(x) : validate_call(flag, x)
  \/ \E x \in TokenInputs :
        \E flag \in MalformedFlags
                      \cup {PyStr(generate_unique_flag(x[1], x[2], x[3], x[4]))} :
           validator_validate_call(flag, x)

SpecToken == Init /\ [][NextToken]_vars

ValidateOps == {"validate", "FlagValidator.validate"}
GenerateOps == {"generate", "FlagGenerator.generate"}

\* the inputs that differ from x in exactly one of challenge id, user id and
\* instance data, the secret being the same
OneChanged(x) ==
  {y \in TokenInputs :
     /\ y[4] = x[4]
     /\ Cardinality({i \in 1..3 : y[i] # x[i]}) = 1}

\* C21: validate(token, w, u, n, s) returns true exactly when token is the string
\* generate(w, u, n, s): the round trip is accepted, a token that differs from the
\* generated one in a single character is rejected, and so is a token generated
\* for another workload id, another user id or another nonce.
C21_ValidateIffGenerated ==
  ret.op \in ValidateOps =>
    LET flag == ret.args[1]
        x == SubSeq(ret.args, 2, 5)
        expected == generate_unique_flag(x[1], x[2], x[3], x[4])
    IN  /\ ret.status \in {"True", "False"}
        /\ (ret.status = "True") <=> (flag = PyStr(expected))
        /\ (flag.is_str /\ Len(flag.chars) = Len(expected)
              /\ Cardinality({i \in 1..Len(expected) : flag.chars[i] # expected[i]}) = 1)
             => ret.status = "False"
        /\ \A y \in OneChanged(x) :
              flag = PyStr(generate_unique_flag(y[1], y[2], y[3], y[4]))
                 => ret.status = "False"

\* validate has accepted the flag generated from its own inputs
C21_Witness ==
  /\ ret.op = "validate"
  /\ ret.status = "True"
  /\ ret.args[1] = PyStr(generate_unique_flag(ret.args[2], ret.args[3],
                                              ret.args[4], ret.args[5]))

\* the grammar of a flag: "flag{", sixteen lowercase hexadecimal digits, "}"
InGrammar(flag) ==
  /\ flag.is_str
  /\ Len(flag.chars) = Len(FlagPrefix) + HEX_LEN + Len(FlagSuffix)
  /\ SubSeq(flag.chars, 1, Len(FlagPrefix)) = FlagPrefix
  /\ \A i \in (Len(FlagPrefix) + 1)..(Len(FlagPrefix) + HEX_LEN) :
        \E h \in 1..Len(HexDigits) : flag.chars[i] = HexDigits[h]
  /\ flag.chars[Len(flag.chars)] = "}"

\* C22 (as claimed): validate never raises; for every input outside the grammar
\* flag{ + 16 lowercase hexadecimal digits + } it returns false, and it does so
\* before any token is recomputed.
C22_MalformedRejectedEarly ==
  (ret.op \in ValidateOps /\ ~InGrammar(ret.args[1]))
     => /\ ret.status = "False"
        /\ ret.n = 0

C24_DifferentInputsDifferentTokens ==
  [][(ret.op \in GenerateOps /\ ret'.op \in GenerateOps /\ ret.args # ret'.args)
        => ret.sess # ret'.sess]_vars


(***************************************************************************)
(* Provisioning failures, quota and lookup                                 *)
(***************************************************************************)
\* C25 (as claimed): a session is created atomically with its instance: when a
\* provisioning request has ended in failure, no instance started by that request
\* is running and no session and no tracking entry of the orchestrator exists
\* for it.
C25_FailedSpawnLeavesNothing ==
  \A r \in Requests :
     (req[r].pc = "done" /\ req[r].code \notin {200, 201} /\ req[r].container_id # "")
        => /\ req[r].container_id \notin list_running(docker)
           /\ req[r].container_id \notin DOMAIN active_containers
           /\ \A i \in 1..Len(sessions) :
                 sessions[i].container_id # req[r].container_id

\* no removal timer of a session is due: every timer still waits for its time
NoTimerDue == \A t \in BagToSet(timers) : now < t.fire_at

\* the sessions of the registry that are active and whose expiry has not passed
Live == {i \in 1..Len(sessions) :
           sessions[i].status = "active" /\ ~expired(now, sessions[i])}

\* C26 (as claimed): create is rejected for quota only if the user holds at least
\* max_sessions_per_user sessions that are active and not expired; sessions whose
\* expiry has passed do not count, whether or not they were removed yet (looked
\* at when no removal timer is due and the user's index holds no id twice).
C26_QuotaCountsOnlyLive ==
  [][\A a \in CreateInputs, t \in Timeouts :
       (/\ ret'.op = "create_session" /\ ret'.status # "ok"
        /\ a[1] # "" /\ a[2] # "" /\ a[3].has_id
        /\ NoTimerDue
        /\ Cardinality(Range(UserList(user_sessions, a[1])))
              = Len(UserList(user_sessions, a[1]))
        /\ create_session(a[1], a[2], a[3], t))
          => Cardinality({i \in Live : sessions[i].user_id = a[1]})
                >= max_sessions_per_user]_vars

\* C27 (as claimed): get(U, W) returns a session whenever the registry holds an
\* active session of (U, W) whose expiry lies in the future, also when an expired
\* session of the pair that was not removed yet is present; it returns None only
\* when there is no such session.
C27_GetFindsLiveSession ==
  (ret.op = "get_session" /\ NoTimerDue)
     => LET live == {i \in Live : /\ sessions[i].user_id = ret.args[1]
                                  /\ sessions[i].challenge_id = ret.args[2]}
        IN  (ret.status = "None") <=> (live = {})


(***************************************************************************)
(* Recovery: counters, restarts and escalation of the Health Monitor       *)
(***************************************************************************)
\* two containers started and watched with the default interval at the start, the
\* process of the first one exiting time and again, the monitoring loop and the
\* threads it starts
RecoveryStates == {Exited}

NextRecovery ==
  \/ Tick /\ UNCHANGED <<rtVars, apiVars, hmVars>>
  \/ \E r \in RunInputs : now = StartTime /\ container_run(r[1], r[2])
  \/ \E c \in FailingContainers, st \in RecoveryStates : container_state_change(c, st)
  \/ \E c \in HMContainers, t \in LoopThreads :
        now = StartTime /\ start_monitoring(c, DEFAULT_CHECK_INTERVAL, t)
  \/ \E t \in LoopThreads : monitor_wake(t)
  \/ \E t \in LoopThreads : monitor_list(t)
  \/ \E t \in LoopThreads : check_container_health(t)
  \/ \E t \in LoopThreads : handle_check_result(t)
  \/ \E task \in tasks : attempt_container_restart(task)
  \/ \E task \in tasks : restart_verify(task)
  \/ \E task \in tasks : cleanup_failed_container(task)

SpecRecovery == Init /\ [][NextRecovery]_vars

\* the counters of the monitor stay within their bounds
CountersBounded(h) ==
  /\ \A c \in DOMAIN h.recovery_attempts : h.recovery_attempts[c] <= FAILURE_THRESHOLD
  /\ \A c \in DOMAIN h.failure_counts : h.failure_counts[c] <= FAILURE_THRESHOLD + 1

\* thread t is about to handle an unhealthy reading of the watched container c
HandlesUnhealthy(t, c) ==
  /\ hm.threads[t].pc = "handle"
  /\ hm.threads[t].health_status = "unhealthy"
  /\ Head(hm.threads[t].containers_to_check) = c
  /\ c \in Watched(hm.monitored_containers)

\* the restarts of c that a step dispatches
NewRestarts(c) ==
  {task \in tasks' \ tasks : task.kind = "restart" /\ task.container_id = c}

\* a restart is dispatched for a watched container only while its recovery counter
\* is below the threshold, and the counter counts it
RestartsCounted ==
  \A t \in ThreadIds, c \in HMContainers :
     (HandlesUnhealthy(t, c) /\ handle_check_result(t) /\ NewRestarts(c) # {})
        => /\ hm.recovery_attempts[c] < FAILURE_THRESHOLD
           /\ hm'.recovery_attempts[c] = hm.recovery_attempts[c] + 1

\* an unhealthy reading that finds a bound exhausted unwatches the container and
\* dispatches its cleanup, not a restart
ExhaustedEscalates ==
  \A t \in ThreadIds, c \in HMContainers :
     (/\ HandlesUnhealthy(t, c)
      /\ \/ hm.failure_counts[c] + 1 > FAILURE_THRESHOLD
         \/ hm.recovery_attempts[c] >= FAILURE_THRESHOLD
      /\ handle_check_result(t))
        => /\ c \notin Watched(hm'.monitored_containers)
           /\ NewRestarts(c) = {}
           /\ [kind |-> "cleanup", container_id |-> c, attempt |-> 0] \in tasks'

\* C28 (as claimed): between a watch and the matching unwatch of an instance at
\* most FAILURE_THRESHOLD restarts are dispatched for it; its recovery counter never
\* exceeds FAILURE_THRESHOLD and its failure counter never FAILURE_THRESHOLD + 1;
\* an unhealthy reading that finds either bound exhausted unwatches the instance
\* and dispatches its destruction instead of a restart.
C28_BoundedRecovery ==
  [][CountersBounded(hm') /\ RestartsCounted /\ ExhaustedEscalates]_vars

\* thread t is about to handle a healthy reading of the watched container c
HandlesHealthy(t, c) ==
  /\ hm.threads[t].pc = "handle"
  /\ hm.threads[t].health_status = "healthy"
  /\ Head(hm.threads[t].containers_to_check) = c
  /\ c \in Watched(hm.monitored_containers)

\* C29: after a health check that reads healthy for a watched instance its failure
\* counter is 0 and its recovery counter is what it was; a restart that is found
\* running when it is verified resets the failure counter to 0 and changes nothing
\* else, and a restart that failed leaves the counters as they are.
C29_HealthyResetsFailures ==
  [][/\ \A t \in ThreadIds, c \in HMContainers :
          (HandlesHealthy(t, c) /\ handle_check_result(t))
             => /\ hm'.failure_counts[c] = 0
                /\ hm'.recovery_attempts = hm.recovery_attempts
     /\ \A task \in tasks :
          (task.kind = "settle" /\ restart_verify(task))
             => LET c == task.container_id
                IN  IF c \in DOMAIN docker /\ docker[c].running
                    THEN /\ hm'.failure_counts[c] = 0
                         /\ hm' = [hm EXCEPT !.failure_counts = hm'.failure_counts]
                         /\ \A k \in DOMAIN hm.failure_counts \ {c} :
                               hm'.failure_counts[k] = hm.failure_counts[k]
                    ELSE hm' = hm
     /\ \A task \in tasks :
          (task.kind = "restart" /\ attempt_container_restart(task)) => hm' = hm]_vars

\* the restart of the watched container c1 was verified after an unhealthy reading
\* had been counted: its failure counter is back at 0, one recovery is counted
C29_Witness ==
  /\ "c1" \in Watched(hm.monitored_containers)
  /\ hm.recovery_attempts["c1"] >= 1
  /\ hm.failure_counts["c1"] = 0
  /\ hm.health_status["c1"] = "unhealthy"
  /\ "c1" \in DOMAIN docker /\ docker["c1"].running
  /\ \A task \in tasks : task.container_id # "c1"

\* a restart is in progress: its thread is before the restart call or in the wait
\* that follows it
RestartInProgress == \E task \in tasks : task.kind \in {"restart", "settle"}

\* the step of the monitoring loop that thread t is at can be taken
LoopCanProceed(t) ==
  /\ hm.threads[t].pc = "wait" => ENABLED monitor_wake(t)
  /\ hm.threads[t].pc = "list" => ENABLED monitor_list(t)
  /\ hm.threads[t].pc = "check" => ENABLED check_container_health(t)
  /\ hm.threads[t].pc = "handle" => ENABLED handle_check_result(t)

\* C30: no restart, kill or remove call of the runtime is made inside a block that
\* holds the lock of the monitor: the steps that change the runtime leave the
\* state under the lock alone and the steps under the lock leave the runtime
\* alone; and the monitoring loop never waits for a restart: while a restart is
\* in progress, every step of the loop can be taken.
C30_RuntimeCallsOffLock ==
  [][/\ hm' # hm => docker' = docker
     /\ \A task \in tasks :
          (attempt_container_restart(task) \/ cleanup_failed_container(task))
             => hm' = hm
     /\ RestartInProgress => \A t \in LoopThreads : LoopCanProceed(t)]_vars

\* while the restart of c1 waits to be verified, the loop has gone on to the check
\* of c2 in the same pass
C30_Witness ==
  /\ \E task \in tasks : task.kind = "settle" /\ task.container_id = "c1"
  /\ hm.threads["t1"].pc = "handle"
  /\ Head(hm.threads["t1"].containers_to_check) = "c2"
  /\ hm.last_check_time["c1"] = now
  /\ hm.last_check_time["c2"] = now

(***************************************************************************)
(* One watched container in every state the runtime can report             *)
(***************************************************************************)
\* container.attrs['State']: Running, ExitCode and Health.Status in every combination
AllContainerStates ==
  [running : BOOLEAN, exit_code : {0, 1},
   health : {"none", "healthy", "unhealthy", "starting"}]

\* the container c1 is started, changes its state, is removed; it is watched, and
\* the loop and the restart threads it starts run.  The clock stands still: a
\* container is checked once after each watch, so no failure count passes the
\* threshold and no cleanup thread is started
NextStatus ==
  \/ container_run("c1", TRUE)
  \/ \E st \in AllContainerStates : container_state_change("c1", st)
  \/ container_removed("c1")
  \/ \E t \in LoopThreads : start_monitoring("c1", DEFAULT_CHECK_INTERVAL, t)
  \/ \E t \in LoopThreads : monitor_wake(t)
  \/ \E t \in LoopThreads : monitor_list(t)
  \/ \E t \in LoopThreads : check_container_health(t)
  \/ \E t \in LoopThreads : handle_check_result(t)
  \/ \E task \in tasks : attempt_container_restart(task)
  \/ \E task \in tasks : restart_verify(task)

SpecStatus == Init /\ [][NextStatus]_vars

\* the maps that hold the tracking state of a container
Tracked(h) ==
  DOMAIN h.health_status \cup DOMAIN h.failure_counts
     \cup DOMAIN h.last_check_time \cup DOMAIN h.recovery_attempts

\* C31: a health check that finds a watched instance gone from the runtime removes
\* it from the watched set and from every tracking map in that same check, starts
\* no restart and no cleanup for it and issues no call that changes the runtime.
C31_VanishedIsUnwatched ==
  [][\A t \in LoopThreads :
       (/\ hm.threads[t].pc = "check"
        /\ Head(hm.threads[t].containers_to_check) \notin DOMAIN docker
        /\ Head(hm.threads[t].containers_to_check) \in Watched(hm.monitored_containers)
        /\ check_container_health(t))
          => LET cid == Head(hm.threads[t].containers_to_check)
             IN  /\ cid \notin Watched(hm'.monitored_containers)
                 /\ cid \notin Tracked(hm')
                 /\ tasks' = tasks
                 /\ docker' = docker]_vars

\* c1 was watched, has vanished, and the check that found it gone has unwatched
\* it: the loop is told to stop and nothing was escalated
C31_Witness ==
  /\ "c1" \notin DOMAIN docker
  /\ hm.monitored_containers = <<>>
  /\ "c1" \notin Tracked(hm)
  /\ hm.stop_event
  /\ "c1" \notin hm_obs.escalated

\* the health-check verdicts the runtime reports
ExplicitStatus == {"healthy", "unhealthy", "starting"}

\* the step is a health check by thread t that read the state of c and recorded
\* the status it derived
RecordsStatus(t, c) ==
  /\ hm.threads[t].pc = "check"
  /\ Head(hm.threads[t].containers_to_check) = c
  /\ c \in DOMAIN docker
  /\ check_container_health(t)
  /\ hm'.health_status[c] # "unknown"

\* C32 (as claimed): for every runtime state the derived status is the explicit
\* health-check status whenever the runtime reports healthy, unhealthy or starting;
\* only without one is it healthy for a running process with exit code zero and
\* unhealthy for a process that is not running or has a non-zero exit code.
C32_ExplicitStatusFirst ==
  [][\A t \in LoopThreads, c \in HMContainers :
       RecordsStatus(t, c)
          => hm'.health_status[c] =
                IF docker[c].health \in ExplicitStatus THEN docker[c].health
                ELSE IF docker[c].running /\ docker[c].exit_code = 0 THEN "healthy"
                ELSE "unhealthy"]_vars

\* C32 (amended): the derived status is unhealthy whenever the process is not
\* running, whatever the health check says; for a running process it is the
\* explicit status when the runtime reports healthy, unhealthy or starting, and
\* otherwise healthy with exit code zero and unhealthy with a non-zero exit code.
C32_RunningFlagFirst ==
  [][\A t \in LoopThreads, c \in HMContainers :
       RecordsStatus(t, c)
          => LET state == docker[c]
                 status == hm'.health_status[c]
             IN  /\ ~state.running => status = "unhealthy"
                 /\ (state.running /\ state.health \in ExplicitStatus)
                       => status = state.health
                 /\ (state.running /\ state.health \notin ExplicitStatus)
                       => /\ status \in {"healthy", "unhealthy"}
                          /\ status = "healthy" <=> state.exit_code = 0]_vars

\* the check of c1 has just recorded unhealthy for a process that is not running
\* and whose last health-check verdict is healthy
C32_Witness ==
  /\ hm.threads["t1"].pc = "handle"
  /\ hm.threads["t1"].health_status = "unhealthy"
  /\ Get(hm.health_status, "c1", "") = "unhealthy"
  /\ "c1" \in DOMAIN docker
  /\ ~docker["c1"].running /\ docker["c1"].health = "healthy"

\* C33: a watch of an instance that carries the ownership label, new or already
\* watched, leaves it watched with status unknown and with failure counter and
\* recovery-attempt counter zero.
C33_WatchResetsCounters ==
  [][\A t \in LoopThreads :
       (/\ "c1" \in DOMAIN docker
        /\ has_challenge_label(docker["c1"])
        /\ start_monitoring("c1", DEFAULT_CHECK_INTERVAL, t))
          => /\ "c1" \in Watched(hm'.monitored_containers)
             /\ Get(hm'.health_status, "c1", "") = "unknown"
             /\ Get(hm'.failure_counts, "c1", -1) = 0
             /\ Get(hm'.recovery_attempts, "c1", -1) = 0]_vars

\* c1 is watched and fresh again although a restart of it, started when its
\* counters stood above zero, is still running
C33_Witness ==
  /\ "c1" \in Watched(hm.monitored_containers)
  /\ Get(hm.health_status, "c1", "") = "unknown"
  /\ Get(hm.failure_counts, "c1", -1) = 0
  /\ Get(hm.recovery_attempts, "c1", -1) = 0
  /\ Get(hm.last_check_time, "c1", -1) = 0
  /\ \E task \in tasks : task.kind = "restart" /\ task.container_id = "c1"
                            /\ task.attempt >= 1

(***************************************************************************)
(* The sweep, the listing and the frame of create                          *)
(***************************************************************************)
\* the step is the locked part of cleanup_expired_sessions
SweepStep == sweep_pc = "locked_out" /\ sweep_pc' = "idle"

\* the entries of a per-user index that name sessions of the set ids
Entries(list, ids) == SelectSeq(list, LAMBDA sid : sid \in ids)

\* C34: a sweep removes exactly the sessions whose expires_at lies before the
\* time the sweep read: every other session keeps its record and its place, the
\* index entries of the sessions that stay are unchanged for every user, and the
\* count returned is the number of sessions removed.
C34_SweepRemovesExactlyExpired ==
  [][SweepStep =>
       /\ sessions' = SelectSeq(sessions, LAMBDA info : ~(sweep_time > info.expires_at))
       /\ \A u \in Users :
             Entries(UserList(user_sessions', u), Keys(sessions'))
                = Entries(UserList(user_sessions, u), Keys(sessions'))
       /\ ret'.op = "cleanup_expired_sessions"
       /\ ret'.n = Len(sessions) - Len(sessions')]_vars

\* a sweep has just removed an expired session and left one that has not expired
C34_Witness ==
  /\ ret.op = "cleanup_expired_sessions"
  /\ ret.n >= 1
  /\ \E i \in 1..Len(sessions) :
        /\ sessions[i].expires_at >= now
        /\ InList(UserList(user_sessions, sessions[i].user_id), sessions[i].session_id)

\* C35 (as claimed): list_user_sessions(U) returns exactly the sessions of user U
\* that are active and have not expired, each once; it returns no session of
\* another user and no expired one, every expired session in U's index is marked
\* expired, and U's index is left without references to sessions that are gone.
C35_ListReturnsExactlyLive ==
  ret.op = "list_user_sessions"
     => LET u    == ret.args[1]
            live == {i \in 1..Len(sessions) : /\ sessions[i].user_id = u
                                              /\ sessions[i].status = "active"
                                              /\ ~expired(now, sessions[i])}
            ids  == Range(UserList(user_sessions, u))
        IN  /\ Range(ret.sess) = {sessions[i] : i \in live}
            /\ Len(ret.sess) = Cardinality(live)
            /\ \A i \in 1..Len(sessions) :
                  (sessions[i].session_id \in ids /\ expired(now, sessions[i]))
                     => sessions[i].status = "expired"
            /\ ids \subseteq Keys(sessions)

(***************************************************************************)
(* The periodic sweep over several periods                                 *)
(***************************************************************************)
\* the clock runs on for two periods of the sweep
SweepHorizon == StartTime + 2 * CLEANUP_INTERVAL

\* the last value the clock takes
LastTime == StartTime + ((SweepHorizon - StartTime) \div TickLen) * TickLen

\* the clock, up to `limit`
TickTo(limit) ==
  /\ now + TickLen <= limit
  /\ now' = now + TickLen
  /\ ret' = NoCall
  /\ UNCHANGED <<sessions, user_sessions, timers, cleanup_timer, sweep_pc, sweep_time>>

\* _schedule_cleanup when cleanup_expired_sessions raises after it has removed some
\* of the expired sessions: `except Exception` logs, `finally` starts the next timer
schedule_cleanup_raises ==
  /\ sweep_pc = "locked_out"
  /\ LET ids == expired_session_ids(sessions, sweep_time)
     IN  \E k \in 0..Len(ids) :
           LET r == cleanup_all(sessions, user_sessions, SubSeq(ids, 1, k), 0)
           IN  /\ sessions' = r.s
               /\ user_sessions' = r.u
               /\ ret' = Ret("cleanup_expired_sessions", <<sweep_time>>, "Exception",
                             NoResult, r.n)
  /\ cleanup_timer' = next_cleanup(now, TRUE)
  /\ sweep_pc' = "idle"
  /\ UNCHANGED <<now, timers, sweep_time>>

\* the sweep run ends, with or without an exception
sweep_returns == schedule_cleanup_raises \/ cleanup_expired_sessions

\* sessions are created, their timers fire, and the periodic sweep runs, sometimes
\* raising
NextSchedule ==
  \/ TickTo(SweepHorizon) /\ UNCHANGED <<rtVars, apiVars, hmVars>>
  \/ \E u \in Users :
        create_session(u, "w1", GoodInfo, TickLen) /\ UNCHANGED <<rtVars, apiVars, hmVars>>
  \/ expiry_timer /\ UNCHANGED <<rtVars, apiVars, hmVars>>
  \/ sweep_read_time /\ UNCHANGED <<rtVars, apiVars, hmVars>>
  \/ cleanup_expired_sessions /\ UNCHANGED <<rtVars, apiVars, hmVars>>
  \/ schedule_cleanup_raises /\ UNCHANGED <<rtVars, apiVars, hmVars>>

\* time passes, a timer that is due fires, and a sweep that has started takes the
\* lock and ends
SpecSchedule ==
  /\ Init /\ [][NextSchedule]_vars
  /\ WF_vars(TickTo(SweepHorizon) /\ UNCHANGED <<rtVars, apiVars, hmVars>>)
  /\ WF_vars(sweep_read_time /\ UNCHANGED <<rtVars, apiVars, hmVars>>)
  /\ WF_vars(sweep_returns /\ UNCHANGED <<rtVars, apiVars, hmVars>>)

\* C36: every run of the sweep, a run that raises included, ends with the next run
\* scheduled one period later; a run that is scheduled for a time the clock reaches
\* starts, and a run that has started ends: the sweep recurs as long as time goes on.
C36_SweepRecurs ==
  /\ [][SweepStep => cleanup_timer' = now + CLEANUP_INTERVAL]_vars
  /\ (sweep_pc = "idle" /\ cleanup_timer <= LastTime) ~> (sweep_pc = "locked_out")
  /\ (sweep_pc = "locked_out") ~> (sweep_pc = "idle" /\ cleanup_timer > now)

\* the second run of the sweep has raised and the third run is scheduled
C36_Witness ==
  /\ ret.op = "cleanup_expired_sessions" /\ ret.status = "Exception"
  /\ now >= StartTime + 2 * CLEANUP_INTERVAL
  /\ sweep_pc = "idle"
  /\ cleanup_timer = now + CLEANUP_INTERVAL

\* a create_session step that stores a session: it is the only step that starts a
\* one-shot timer
CreateStep == BagCardinality(timers') > BagCardinality(timers)

\* a one-shot timer fires and its cleanup removes a session
TimerRemoves(t) ==
  /\ BagIn(t, timers)
  /\ CopiesIn(t, timers') < CopiesIn(t, timers)
  /\ Len(sessions') < Len(sessions)

\* C37 (as claimed): create_session never returns the id of a session that is in
\* the registry, so every session that was there keeps its record, and a one-shot
\* timer removes only the session it was started for, the one that expires
\* CLEANUP_BUFFER before the timer is due.
C37_SessionIdsUnique ==
  /\ [][CreateStep =>
          /\ ret'.sess[1].session_id \notin Keys(sessions)
          /\ SubSeq(sessions', 1, Len(sessions)) = sessions]_vars
  /\ [][\A t \in BagToSet(timers) :
          TimerRemoves(t)
             => /\ DictDel(sessions, t.session_id) = sessions'
                /\ Lookup(sessions, t.session_id).expires_at + CLEANUP_BUFFER
                      = t.fire_at]_vars

\* the arguments are among those create_session rejects in the current state
Rejected(a) ==
  \/ a[1] = "" \/ a[2] = "" \/ ~a[3].has_id
  \/ Len(UserList(user_sessions, a[1])) >= max_sessions_per_user

\* C38: a create that is rejected (empty user id or challenge id, container info
\* without an id, or limit reached) raises and leaves the session map, the per-user
\* index and the set of one-shot timers as they were.
C38_RejectedCreateChangesNothing ==
  [][\A a \in CreateInputs, t \in Timeouts :
       (Rejected(a) /\ create_session(a[1], a[2], a[3], t))
          => /\ ret'.op = "create_session" /\ ret'.status # "ok"
             /\ sessions' = sessions
             /\ user_sessions' = user_sessions
             /\ timers' = timers]_vars

\* a create for a user at the limit has just been rejected: the user's sessions
\* and their timers are all still there
C38_Witness ==
  /\ ret.op = "create_session" /\ ret.status = "SessionManagerError"
  /\ ret.args[1] \in Users /\ ret.args[2] \in Workloads
  /\ Len(UserList(user_sessions, ret.args[1])) = max_sessions_per_user
  /\ Recorded(sessions, ret.args[1]) = max_sessions_per_user
  /\ BagCardinality(timers) = max_sessions_per_user

\* C39 (as claimed): in every reachable state the index of every user holds
\* exactly the ids of the sessions of that user in the session map, each once, no
\* user is mapped to an empty list, and the unique_users figure of
\* get_session_stats is the number of users that have a session.
C39_IndexMatchesSessions ==
  /\ \A u \in Users :
        LET list == UserList(user_sessions, u)
        IN  /\ Range(list) = {sessions[i].session_id :
                                 i \in {j \in 1..Len(sessions) : sessions[j].user_id = u}}
            /\ Len(list) = Cardinality(Range(list))
            /\ u \in DOMAIN user_sessions => list # <<>>
  /\ get_session_stats(sessions, user_sessions, now).unique_users
        = Cardinality({sessions[i].user_id : i \in 1..Len(sessions)})

\* C40 (as claimed): the status of a session only moves forward: a session that
\* is marked expired stays expired for as long as it is in the registry and is
\* not returned by a read, and no session in the registry and no session a read
\* returns has status stopped.
C40_StatusMovesForward ==
  /\ [][\A sid \in Keys(sessions) \cap Keys(sessions') :
          Lookup(sessions, sid).status = "expired"
             => Lookup(sessions', sid).status = "expired"]_vars
  /\ [][ret'.op \in ReadOps =>
          \A i \in 1..Len(ret'.sess) :
             /\ ret'.sess[i].status = "active"
             /\ ret'.sess[i].session_id \in Keys(sessions)
                   => Lookup(sessions, ret'.sess[i].session_id).status # "expired"]_vars
  /\ [](\A i \in 1..Len(sessions) : sessions[i].status \in {"active", "expired"})

====
